---- MODULE Spec2Model ----
(***************************************************************************)
(* A model of the rondo round-robin time-series store: the slab, the ring  *)
(* buffer over it, Store::record / Store::consolidate / reopening a store, *)
(* and the consolidation engine with its persisted cursors.                *)
(*                                                                         *)
(* Values.  An f64 is modelled as a tuple: <<>> is NaN, <<n, d>> with d > 0 *)
(* is the finite number n/d in lowest terms, <<1, 0>> is an infinity.      *)
(* Arithmetic is exact (rounding of f64 is not modelled).                  *)
(* Option<u64>: <<>> is None, <<x>> is Some(x).                            *)
(***************************************************************************)
EXTENDS Integers, Sequences, FiniteSets, TLC

VARIABLES
    schema,     \* the SchemaConfig the store was opened with: [tiers, max_series]
    metadata,   \* meta.json: [version, schemas], each schema its config and its hash
    rings,      \* Store.rings[0]: tier index -> [slab, has_wrapped]
    cursors,    \* consolidation_cursors.json: <<>> while the file is absent, else <<map>>
    ret,        \* the last operation, what it returned, and (for consolidate) the number
                \* of destination values each tier pair wrote
    history,    \* history: the successful record calls in order, each <<column, ts, value>>
    registry,   \* Store.registry: the in-memory SeriesRegistry
    index_file, \* series_index.bin: the SeriesIndex last saved
    directories,\* schema index -> tier index -> the slab's series_count and series directory
    issued,     \* <<name, labels as a multiset>> -> the handle the first registration returned
    export,     \* the caller's ExportCursor: <<tier, column>> -> last exported timestamp
    export_file,\* the export cursor file: <<>> while absent, else <<map>>
    drained     \* the drains so far, each the set of <<column, timestamp>> points it returned

\* the registry, the slab directories and the export side of the store
series_vars == <<registry, index_file, directories, issued>>
export_vars == <<export, export_file, drained>>

vars == <<schema, metadata, rings, cursors, ret, history, registry, index_file, directories, issued,
          export, export_file, drained>>

----------------------------------------------------------------------------
(* Bounds of the model *)

\* largest timestamp a record call is given
MaxTs == 8

\* largest number of successful record calls in one behaviour
MaxRecords == 3

\* largest base timestamp of the sequential workload
MaxBase == 4

\* largest number of samples of the sequential workload
MaxSeqLen == 7

\* largest timestamp recorded into the tiered store
MaxStoreTs == 7

\* largest number of successful record calls into the tiered store
MaxStoreRecords == 2

\* largest timestamp of the window workload
MaxWindowTs == 7

\* largest number of samples of the window workload
MaxWindowRecords == 3

----------------------------------------------------------------------------
(* f64 values *)

NaN == <<>>

Infinity == <<1, 0>>

is_nan(v) == v = <<>>

is_infinite(v) == Len(v) = 2 /\ v[2] = 0

is_finite(v) == Len(v) = 2 /\ v[2] # 0

Abs(x) == IF x < 0 THEN 0 - x ELSE x

RECURSIVE Gcd(_, _)
Gcd(a, b) == IF b = 0 THEN a ELSE Gcd(b, a % b)

\* the number n/d (d > 0) in lowest terms
Rat(n, d) == LET g == Gcd(Abs(n), d) IN <<n \div g, d \div g>>

F(n) == <<n, 1>>

RatAdd(a, b) == Rat(a[1] * b[2] + b[1] * a[2], a[2] * b[2])

RatDivInt(a, k) == Rat(a[1], a[2] * k)

RatLess(a, b) == a[1] * b[2] < b[1] * a[2]

RatMin(a, b) == IF RatLess(b, a) THEN b ELSE a

RatMax(a, b) == IF RatLess(a, b) THEN b ELSE a

(* Option<u64> *)

None == <<>>

Some(x) == <<x>>

----------------------------------------------------------------------------
(* Slab: header fields, timestamp column, value columns *)

\* Slab::create with a fault: the value columns are left as the zero bytes of the new file
Slab_create_zeroed(slot_count, max_series, interval_ns) ==
    [ slot_count   |-> slot_count,
      max_series   |-> max_series,
      interval_ns  |-> interval_ns,
      write_cursor |-> 0,
      ts           |-> [s \in 0..(slot_count - 1) |-> 0],
      val          |-> [s \in 0..(slot_count - 1) |-> [c \in 0..(max_series - 1) |-> F(0)]] ]

\* Slab::create: write cursor 0, timestamps 0, every value NaN
Slab_create(slot_count, max_series, interval_ns) ==
    [ slot_count   |-> slot_count,
      max_series   |-> max_series,
      interval_ns  |-> interval_ns,
      write_cursor |-> 0,
      ts           |-> [s \in 0..(slot_count - 1) |-> 0],
      val          |-> [s \in 0..(slot_count - 1) |-> [c \in 0..(max_series - 1) |-> NaN]] ]

----------------------------------------------------------------------------
(* RingBuffer *)

\* RingBuffer::new: wrap detection from the slot after the cursor
RingBuffer_new(slab) ==
    [ slab |-> slab,
      has_wrapped |->
        IF slab.write_cursor = 0
        THEN slab.slot_count > 1 /\ slab.ts[1] # 0
        ELSE slab.ts[(slab.write_cursor + 1) % slab.slot_count] # 0 ]

\* compute_slot with a fault: the timestamp is not divided by the interval
compute_slot_unscaled(ring, timestamp_ns) ==
    timestamp_ns % ring.slab.slot_count

compute_slot(ring, timestamp_ns) ==
    (timestamp_ns \div ring.slab.interval_ns) % ring.slab.slot_count

\* the cursor update with a fault: the cursor never moves back to a lower slot
cursor_after_forward(has_wrapped, slot_index, current_cursor) ==
    IF slot_index >= current_cursor THEN slot_index ELSE current_cursor

\* the cursor update at the end of write / write_batch
cursor_after(has_wrapped, slot_index, current_cursor) ==
    IF has_wrapped \/ slot_index >= current_cursor THEN slot_index ELSE current_cursor

\* the ring after the stores of a successful write_batch (write is the one-entry case):
\* entries is a sequence of <<column, value>>, applied in order
RECURSIVE write_values(_, _, _)
write_values(val, slot_index, entries) ==
    IF entries = <<>> THEN val
    ELSE write_values(
            [val EXCEPT ![slot_index][entries[1][1]] = entries[1][2]],
            slot_index, Tail(entries))

write_ok(ring, entries, timestamp_ns) ==
    LET slot_index     == compute_slot(ring, timestamp_ns)
        current_cursor == ring.slab.write_cursor
        wrapped        == ring.has_wrapped \/ slot_index < current_cursor
    IN  [ slab |-> [ ring.slab EXCEPT
                       !.ts[slot_index] = timestamp_ns,
                       !.val = write_values(@, slot_index, entries),
                       !.write_cursor = cursor_after(wrapped, slot_index, current_cursor) ],
          has_wrapped |-> wrapped ]

\* RingBuffer::write rejects an infinite value and a zero timestamp
write_rejects(value, timestamp_ns) == is_infinite(value) \/ timestamp_ns = 0

\* RingBuffer::write: the ring afterwards and whether the call returned Ok
write(ring, series_column, value, timestamp_ns) ==
    IF write_rejects(value, timestamp_ns)
    THEN [ring |-> ring, ok |-> FALSE]
    ELSE [ring |-> write_ok(ring, <<<<series_column, value>>>>, timestamp_ns), ok |-> TRUE]

\* the index of the first infinite value of a batch, 0 when it has none
first_infinite(entries) ==
    LET at == { i \in 1..Len(entries) : is_infinite(entries[i][2]) }
    IN  IF at = {} THEN 0 ELSE CHOOSE i \in at : \A j \in at : i <= j

\* a write_batch that checks each value only when it comes to store it
write_batch_unchecked(ring, entries, timestamp_ns) ==
    IF timestamp_ns = 0
    THEN [ring |-> ring, ok |-> FALSE]
    ELSE IF first_infinite(entries) # 0
    THEN [ring |-> write_ok(ring, SubSeq(entries, 1, first_infinite(entries) - 1), timestamp_ns),
          ok |-> FALSE]
    ELSE [ring |-> write_ok(ring, entries, timestamp_ns), ok |-> TRUE]

\* RingBuffer::write_batch: the timestamp and every value are validated before any store
write_batch(ring, entries, timestamp_ns) ==
    IF timestamp_ns = 0
    THEN [ring |-> ring, ok |-> FALSE]
    ELSE IF first_infinite(entries) # 0
    THEN [ring |-> ring, ok |-> FALSE]
    ELSE [ring |-> write_ok(ring, entries, timestamp_ns), ok |-> TRUE]

is_empty(ring) == ring.slab.ts[ring.slab.write_cursor] = 0

newest_timestamp(ring) ==
    IF is_empty(ring) THEN None
    ELSE Some(ring.slab.ts[ring.slab.write_cursor])

first_nonzero(ring) ==
    LET nz == {s \in 0..(ring.slab.slot_count - 1) : ring.slab.ts[s] # 0}
    IN  IF nz = {} THEN None
        ELSE Some(ring.slab.ts[CHOOSE s \in nz : \A u \in nz : s <= u])

oldest_timestamp(ring) ==
    IF is_empty(ring) THEN None
    ELSE IF ring.has_wrapped
         THEN LET t == ring.slab.ts[(ring.slab.write_cursor + 1) % ring.slab.slot_count]
              IN  IF t # 0 THEN Some(t) ELSE None
         ELSE first_nonzero(ring)

\* iter_start with a fault: a wrapped ring is read from slot 0 instead of from the slot
\* after the cursor
iter_start_from_zero(ring) ==
    IF is_empty(ring) THEN <<0, 0>>
    ELSE IF ring.has_wrapped
         THEN <<0, ring.slab.slot_count>>
         ELSE <<0, ring.slab.write_cursor + 1>>

\* RingIterator::new: the first slot visited and the number of slots visited
iter_start(ring) ==
    IF is_empty(ring) THEN <<0, 0>>
    ELSE IF ring.has_wrapped
         THEN <<(ring.slab.write_cursor + 1) % ring.slab.slot_count, ring.slab.slot_count>>
         ELSE <<0, ring.slab.write_cursor + 1>>

\* RingIterator::next, run to exhaustion: the points yielded, in order
RECURSIVE iter_collect(_, _, _, _, _, _)
iter_collect(ring, series_column, start_ns, end_ns, current_slot, slots_remaining) ==
    IF slots_remaining = 0 THEN <<>>
    ELSE LET timestamp == ring.slab.ts[current_slot]
             value     == ring.slab.val[current_slot][series_column]
             rest      == iter_collect(ring, series_column, start_ns, end_ns,
                                       (current_slot + 1) % ring.slab.slot_count,
                                       slots_remaining - 1)
         IN  IF timestamp >= start_ns /\ timestamp < end_ns /\ ~is_nan(value)
             THEN <<<<timestamp, value>>>> \o rest
             ELSE rest

\* RingBuffer::read(series_column, start_ns, end_ns), collected (start_ns < end_ns)
read(ring, series_column, start_ns, end_ns) ==
    LET st == iter_start(ring)
    IN  iter_collect(ring, series_column, start_ns, end_ns, st[1], st[2])

----------------------------------------------------------------------------
(* Schema *)

\* TierConfig::slot_count
slot_count(tier) == IF tier.interval = 0 THEN 0 ELSE tier.retention \div tier.interval

NumTiers == Len(schema.tiers)

\* schema.tiers[t], tiers counted from 0 as in the source
Tier(t) == schema.tiers[t + 1]

\* ConsolidationFn::apply helpers: folds over a non-empty sequence of finite values
RECURSIVE SumSeq(_)
SumSeq(vs) == IF Len(vs) = 1 THEN vs[1] ELSE RatAdd(vs[1], SumSeq(Tail(vs)))

RECURSIVE MinSeq(_)
MinSeq(vs) == IF Len(vs) = 1 THEN vs[1] ELSE RatMin(vs[1], MinSeq(Tail(vs)))

RECURSIVE MaxSeq(_)
MaxSeq(vs) == IF Len(vs) = 1 THEN vs[1] ELSE RatMax(vs[1], MaxSeq(Tail(vs)))

\* ConsolidationFn::apply
apply(fn, values) ==
    LET valid_values == SelectSeq(values, is_finite)
    IN  IF valid_values = <<>> THEN NaN
        ELSE CASE fn = "Average" -> RatDivInt(SumSeq(valid_values), Len(valid_values))
               [] fn = "Min"     -> MinSeq(valid_values)
               [] fn = "Max"     -> MaxSeq(valid_values)
               [] fn = "Last"    -> valid_values[Len(valid_values)]
               [] fn = "Sum"     -> SumSeq(valid_values)
               [] fn = "Count"   -> F(Len(valid_values))

ConsolidationFns == {"Average", "Min", "Max", "Last", "Sum", "Count"}

----------------------------------------------------------------------------
(* Store *)

\* the cap on the slots of one tier
MAX_SLOTS_PER_TIER == 1000000000

\* TierConfig::validate: "ok" or the error it returns
TierConfig_validate(tier) ==
    IF tier.interval = 0 THEN "InvalidTierConfig"
    ELSE IF tier.retention = 0 THEN "InvalidTierConfig"
    ELSE IF tier.retention < tier.interval THEN "InvalidTierConfig"
    ELSE IF slot_count(tier) > MAX_SLOTS_PER_TIER THEN "TooManySlots"
    ELSE "ok"

\* SchemaConfig::validate: "ok" or the first error it returns
SchemaConfig_validate(config) ==
    LET tiers   == config.tiers
        invalid == { t \in 1..Len(tiers) : TierConfig_validate(tiers[t]) # "ok" }
    IN  IF Len(tiers) = 0 THEN "NoTiers"
        ELSE IF config.max_series = 0 THEN "InvalidMaxSeries"
        ELSE IF invalid # {}
             THEN TierConfig_validate(tiers[CHOOSE t \in invalid : \A u \in invalid : t <= u])
        ELSE IF \E t \in 1..(Len(tiers) - 1) : tiers[t].interval >= tiers[t + 1].interval
             THEN "TiersNotOrdered"
        ELSE IF tiers[1].fn # "None" THEN "ConsolidationOnHighestTier"
        ELSE "ok"

\* Store::create_new: one freshly created slab per tier of the schema
create_new(sch) ==
    [ t \in 0..(Len(sch.tiers) - 1) |->
        RingBuffer_new(Slab_create(slot_count(sch.tiers[t + 1]), sch.max_series,
                                   sch.tiers[t + 1].interval)) ]

\* Store::open_existing: every slab is mapped again and wrapped in a new RingBuffer
open_existing(rs) == [ t \in DOMAIN rs |-> RingBuffer_new(rs[t].slab) ]

\* results of operations
Ok(n) == [ok |-> TRUE, n |-> n]

Err == [ok |-> FALSE, n |-> 0]

----------------------------------------------------------------------------
(* Consolidation engine *)

\* load with a fault: the cursor file is ignored and every engine starts without cursors
load_nothing(file) == [ i \in {} |-> 0 ]

\* the cursor map of an engine: ConsolidationCursors::load of the cursor file
\* (an absent file gives the empty map); keys are source tier indices
load(file) == IF file = <<>> THEN [ i \in {} |-> 0 ] ELSE file[1]

\* set_cursor: insert or replace the entry of a tier pair
set_cursor(cur, source_tier_index, timestamp) ==
    [ i \in DOMAIN cur \cup {source_tier_index} |->
        IF i = source_tier_index THEN timestamp ELSE cur[i] ]

\* get_or_initialize_cursor: the map afterwards (a missing entry is inserted as 0)
get_or_initialize_cursor(cur, source_tier_index) ==
    IF source_tier_index \in DOMAIN cur THEN cur ELSE set_cursor(cur, source_tier_index, 0)

window_start(timestamp, dest_interval_ns) == (timestamp \div dest_interval_ns) * dest_interval_ns

\* the values of a sequence of <<timestamp, value>> points that fall in window w, in order
RECURSIVE window_values(_, _, _)
window_values(points, dest_interval_ns, w) ==
    IF points = <<>> THEN <<>>
    ELSE LET rest == window_values(Tail(points), dest_interval_ns, w)
         IN  IF window_start(points[1][1], dest_interval_ns) = w
             THEN <<points[1][2]>> \o rest
             ELSE rest

\* the keys of all_windows: the windows that hold a point of some series
all_windows(source_ring, dest_interval_ns, start_timestamp, end_timestamp, max_series) ==
    UNION { LET points == read(source_ring, series_column, start_timestamp, end_timestamp)
            IN  { window_start(points[k][1], dest_interval_ns) : k \in 1..Len(points) }
          : series_column \in 0..(max_series - 1) }

\* the <<series_column, consolidated_value>> pairs of window w
RECURSIVE window_entries(_, _, _, _, _, _, _)
window_entries(source_ring, dest_tier, start_timestamp, end_timestamp, max_series, w, series_column) ==
    IF series_column >= max_series THEN <<>>
    ELSE LET points == read(source_ring, series_column, start_timestamp, end_timestamp)
             values == window_values(points, dest_tier.interval, w)
             rest   == window_entries(source_ring, dest_tier, start_timestamp, end_timestamp,
                                      max_series, w, series_column + 1)
         IN  IF values = <<>> THEN rest
             ELSE <<<<series_column, apply(dest_tier.fn, values)>>>> \o rest

\* the writes of one window: dest_ring.write(series_column, value, w) for each entry.
\* The result is [ring, ops, ok]; the first rejected write ends the pass (the `?`).
RECURSIVE write_window(_, _, _, _)
write_window(dest_ring, entries, w, operations) ==
    IF entries = <<>> THEN [ring |-> dest_ring, ops |-> operations, ok |-> TRUE]
    ELSE IF write_rejects(entries[1][2], w)
         THEN [ring |-> dest_ring, ops |-> operations, ok |-> FALSE]
         ELSE write_window(write_ok(dest_ring, <<entries[1]>>, w), Tail(entries), w,
                           operations + 1)

\* the loop over all_windows.values(): a HashMap is iterated in an arbitrary order, so
\* this is the set of results over every order of the windows still to be written.
\* (The order of the series inside one window is arbitrary too, but every write of a
\* window goes to the same slot with the same timestamp, so it has no effect.)
RECURSIVE write_windows(_, _, _, _, _, _, _, _)
write_windows(source_ring, dest_ring, dest_tier, start_timestamp, end_timestamp, max_series, windows, operations) ==
    IF windows = {} THEN { [ring |-> dest_ring, ops |-> operations, ok |-> TRUE] }
    ELSE UNION { LET entries == window_entries(source_ring, dest_tier, start_timestamp,
                                               end_timestamp, max_series, w, 0)
                     written == write_window(dest_ring, entries, w, operations)
                 IN  IF written.ok
                     THEN write_windows(source_ring, written.ring, dest_tier, start_timestamp,
                                        end_timestamp, max_series, windows \ {w}, written.ops)
                     ELSE { written }
               : w \in windows }

\* process_consolidation_windows: the possible [ring, ops, ok] for the destination ring
process_consolidation_windows(source_ring, dest_ring, dest_tier, start_timestamp, end_timestamp, max_series) ==
    write_windows(source_ring, dest_ring, dest_tier, start_timestamp, end_timestamp, max_series,
                  all_windows(source_ring, dest_tier.interval, start_timestamp, end_timestamp,
                              max_series), 0)

\* the first timestamp a pass reads from the source tier
start_of(source_ring, source_tier, last_processed) ==
    IF last_processed = 0
    THEN LET oldest == oldest_timestamp(source_ring)
         IN  IF oldest = None THEN 0 ELSE oldest[1]
    ELSE last_processed + source_tier.interval

\* one past the last timestamp a pass reads (ring.read's end is exclusive)
end_of(source_ring) ==
    LET source_newest == newest_timestamp(source_ring)
    IN  IF source_newest = None THEN 0 ELSE source_newest[1] + 1

\* update_cursor with a fault: the cursor moves even when the pass wrote nothing
update_cursor_always(cur, source_tier_index, operations, source_newest) ==
    set_cursor(cur, source_tier_index, IF source_newest = None THEN 0 ELSE source_newest[1])

\* the cursor update at the end of consolidate_tier_pair
update_cursor(cur, source_tier_index, operations, source_newest) ==
    IF operations > 0
    THEN set_cursor(cur, source_tier_index, IF source_newest = None THEN 0 ELSE source_newest[1])
    ELSE cur

\* the timestamps of the points a step reads from its source tier (any series)
points_seen(source_ring, start_timestamp, end_timestamp, max_series) ==
    UNION { LET points == read(source_ring, series_column, start_timestamp, end_timestamp)
            IN  { points[k][1] : k \in 1..Len(points) }
          : series_column \in 0..(max_series - 1) }

\* consolidate_tier_pair for source tier i: the possible [rings, cur, ops, ok], with
\* the timestamps the step read (seen) and the windows it wrote (wrote)
consolidate_tier_pair(sch, rs, cur, source_tier_index) ==
    LET source_tier == sch.tiers[source_tier_index + 1]
        dest_tier   == sch.tiers[source_tier_index + 2]
        source_ring == rs[source_tier_index]
        dest_ring   == rs[source_tier_index + 1]
        cur1        == get_or_initialize_cursor(cur, source_tier_index)
        start_timestamp == start_of(source_ring, source_tier, cur1[source_tier_index])
        end_timestamp   == end_of(source_ring)
    IN  IF dest_tier.fn = "None"
        THEN { [rings |-> rs, cur |-> cur, ops |-> 0, ok |-> FALSE, seen |-> {}, wrote |-> {}] }
        ELSE IF start_timestamp >= end_timestamp
        THEN { [rings |-> rs, cur |-> cur1, ops |-> 0, ok |-> TRUE, seen |-> {}, wrote |-> {}] }
        ELSE { [rings |-> [rs EXCEPT ![source_tier_index + 1] = o.ring],
                cur   |-> update_cursor(cur1, source_tier_index, o.ops,
                                        newest_timestamp(source_ring)),
                ops   |-> o.ops,
                ok    |-> o.ok,
                seen  |-> points_seen(source_ring, start_timestamp, end_timestamp,
                                      sch.max_series),
                wrote |-> IF o.ok
                          THEN all_windows(source_ring, dest_tier.interval, start_timestamp,
                                           end_timestamp, sch.max_series)
                          ELSE {}]
             : o \in process_consolidation_windows(source_ring, dest_ring, dest_tier,
                                                   start_timestamp, end_timestamp,
                                                   sch.max_series) }

\* ConsolidationEngine::consolidate from tier pair i on: the possible
\* [rings, cursors, res, ops, steps].  A failed pair returns at once and the cursor file
\* keeps its content; a completed pass saves the engine's cursor map.  steps records for
\* each pair in turn what its step read and wrote (ops, seen, wrote).
RECURSIVE consolidate_from(_, _, _, _, _, _, _)
consolidate_from(sch, rs, file, cur, source_tier_index, total_operations, pair_steps) ==
    IF source_tier_index >= Len(sch.tiers) - 1
    THEN { [rings |-> rs, cursors |-> <<cur>>, res |-> Ok(total_operations),
            ops |-> [k \in 1..Len(pair_steps) |-> pair_steps[k].ops], steps |-> pair_steps] }
    ELSE UNION { LET step == [ops |-> o.ops, seen |-> o.seen, wrote |-> o.wrote]
                 IN  IF o.ok
                     THEN consolidate_from(sch, o.rings, file, o.cur, source_tier_index + 1,
                                           total_operations + o.ops, Append(pair_steps, step))
                     ELSE { [rings |-> o.rings, cursors |-> file, res |-> Err,
                             ops |-> [k \in 1..(Len(pair_steps) + 1) |->
                                        Append(pair_steps, step)[k].ops],
                             steps |-> Append(pair_steps, step)] }
               : o \in consolidate_tier_pair(sch, rs, cur, source_tier_index) }

\* Store::consolidate: a new engine loads the cursor file and runs one pass
consolidate(sch, rs, file) == consolidate_from(sch, rs, file, load(file), 0, 0, <<>>)

----------------------------------------------------------------------------
(* Series registry.  Strings are numbered in their sort order: 0 is the     *)
(* empty string, ReservedKey is a label key that starts with "__".         *)

ReservedKey == -1

SeriesHandle_new(schema_index, series_id, column) ==
    [schema_index |-> schema_index, series_id |-> series_id, column |-> column]

\* SeriesInfo::new with a fault: every series is given column 0
SeriesInfo_new_first_column(name, labels, schema_index, series_id, column) ==
    [name |-> name, labels |-> labels, schema_index |-> schema_index,
     series_id |-> series_id, column |-> 0]

SeriesInfo_new(name, labels, schema_index, series_id, column) ==
    [name |-> name, labels |-> labels, schema_index |-> schema_index,
     series_id |-> series_id, column |-> column]

\* SeriesInfo::handle
handle(info) == SeriesHandle_new(info.schema_index, info.series_id, info.column)

\* sorted_labels.sort_by(|a, b| a.0.cmp(&b.0)): a stable sort that compares the keys only
RECURSIVE sort_by_key(_)
sort_by_key(labels) ==
    IF Len(labels) <= 1
    THEN labels
    ELSE LET first == Head(labels)
             rest == sort_by_key(Tail(labels))
             Before(l) == l[1] < first[1]
             NotBefore(l) == ~(l[1] < first[1])
         IN  SelectSeq(rest, Before) \o <<first>> \o SelectSeq(rest, NotBefore)

\* SeriesKey::new
SeriesKey_new(name, labels) == [name |-> name, labels |-> sort_by_key(labels)]

\* a schema's label matcher: the set of required <<key, value>> pairs (none when the
\* schema record carries no matcher)
label_matcher(config) == IF "label_matcher" \in DOMAIN config THEN config.label_matcher ELSE {}

\* stable_hash with a fault: the name is hashed too
stable_hash_with_name(config) ==
    <<label_matcher(config), config.tiers, config.max_series,
      IF "name" \in DOMAIN config THEN config.name ELSE 0>>

\* SchemaConfig::stable_hash: the hasher is fed the label matcher, the tiers and
\* max_series, in this order; the hash stands for what it was fed
stable_hash(config) == <<label_matcher(config), config.tiers, config.max_series>>

METADATA_VERSION == 1

\* the StoreMetadata create_new writes to meta.json
StoreMetadata_new(schemas) ==
    [version |-> METADATA_VERSION,
     schemas |-> [i \in 1..Len(schemas) |-> [config |-> schemas[i], hash |-> stable_hash(schemas[i])]]]

\* SeriesRegistry::new
SeriesRegistry_new(schemas) ==
    [schemas |-> schemas,
     series_map |-> << >>,
     next_series_id |-> [i \in 1..Len(schemas) |-> 0],
     next_column |-> [i \in 1..Len(schemas) |-> 0]]

validate_name(name) == name # 0

validate_labels(labels) ==
    \A i \in 1..Len(labels) :
        /\ labels[i][1] # 0
        /\ labels[i][2] # 0
        /\ labels[i][1] # ReservedKey

\* labels collected into a HashMap and looked up by key: the last pair with the key wins
label_map_get(labels, key) ==
    LET at == { i \in 1..Len(labels) : labels[i][1] = key }
    IN  IF at = {} THEN None
        ELSE Some(labels[CHOOSE i \in at : \A j \in at : j <= i][2])

\* LabelMatcher::matches
matches(required, labels) ==
    \A pair \in required : label_map_get(labels, pair[1]) = Some(pair[2])

\* SchemaConfig::matches_labels
matches_labels(config, labels) == matches(label_matcher(config), labels)

\* find_matching_schema: the index of the first schema that matches, None when none does
find_matching_schema(reg, labels) ==
    LET matching == { i \in 0..(Len(reg.schemas) - 1) : matches_labels(reg.schemas[i + 1], labels) }
    IN  IF matching = {} THEN None
        ELSE Some(CHOOSE i \in matching : \A j \in matching : i <= j)

RegisterOk(reg, h) == [registry |-> reg, ok |-> TRUE, handle |-> h, error |-> "none"]
RegisterErr(reg, e) == [registry |-> reg, ok |-> FALSE, handle |-> None, error |-> e]

\* a capacity check that never fails
capacity_unchecked(reg, schema_index) == FALSE

\* the capacity check of register
capacity_reached(reg, schema_index) ==
    reg.next_series_id[schema_index + 1] >= reg.schemas[schema_index + 1].max_series

\* SeriesRegistry::register
register(reg, name, labels) ==
    LET key == SeriesKey_new(name, labels)
        found == find_matching_schema(reg, labels)
    IN  IF ~validate_name(name) \/ ~validate_labels(labels)
        THEN RegisterErr(reg, "InvalidLabel")
        ELSE IF key \in DOMAIN reg.series_map
        THEN RegisterOk(reg, handle(reg.series_map[key]))
        ELSE IF found = None
        THEN RegisterErr(reg, "NoMatchingSchema")
        ELSE LET schema_index == found[1]
             IN  IF capacity_reached(reg, schema_index)
                 THEN RegisterErr(reg, "MaxSeriesExceeded")
                 ELSE LET series_id == reg.next_series_id[schema_index + 1]
                          column == reg.next_column[schema_index + 1]
                          info == SeriesInfo_new(name, labels, schema_index, series_id, column)
                      IN  RegisterOk(
                              [reg EXCEPT !.series_map = [k \in DOMAIN @ \cup {key} |->
                                                             IF k = key THEN info ELSE @[k]],
                                          !.next_series_id[schema_index + 1] = @ + 1,
                                          !.next_column[schema_index + 1] = @ + 1],
                              handle(info))

\* SeriesRegistry::get_handle
get_handle(reg, name, labels) ==
    LET key == SeriesKey_new(name, labels)
    IN  IF key \in DOMAIN reg.series_map THEN Some(handle(reg.series_map[key])) ELSE None

\* the SeriesInfo values of the registry
infos(reg) == { reg.series_map[k] : k \in DOMAIN reg.series_map }

\* SeriesRegistry::handles: the handles of all registered series
handles(reg) == { handle(info) : info \in infos(reg) }

\* SeriesRegistry::series_count
series_count(reg, schema_index) ==
    IF schema_index < Len(reg.next_series_id) THEN reg.next_series_id[schema_index + 1] ELSE 0

\* the header series_count and the series directory of a slab as Slab::create leaves them;
\* overrun records a directory write behind the last entry
Directory_create(max_series) ==
    [max_series |-> max_series,
     series_count |-> 0,
     series_dir |-> [id \in 0..(max_series - 1) |-> None],
     overrun |-> FALSE]

set_series_count(dir, count) == [dir EXCEPT !.series_count = count]

\* Slab::set_series_column does not check series_id against max_series
set_series_column(dir, series_id, column) ==
    IF series_id < dir.max_series
    THEN [dir EXCEPT !.series_dir[series_id] = Some(column)]
    ELSE [dir EXCEPT !.overrun = TRUE]

RECURSIVE set_series_columns(_, _)
set_series_columns(dir, entries) ==
    IF entries = {} THEN dir
    ELSE LET info == CHOOSE e \in entries : TRUE
         IN  set_series_columns(set_series_column(dir, info.series_id, info.column),
                                entries \ {info})

\* SeriesRegistry::sync_to_slabs(slabs): the position of a slab in `slabs` is taken as
\* its schema index
sync_to_slabs(reg, slabs) ==
    [i \in 1..Len(slabs) |->
        set_series_columns(set_series_count(slabs[i], series_count(reg, i - 1)),
                           { info \in infos(reg) : info.schema_index = i - 1 })]

\* SeriesRegistry::save: the SeriesIndex written to series_index.bin
save(reg) ==
    [series |-> infos(reg), next_series_id |-> reg.next_series_id, next_column |-> reg.next_column]

\* a load that rebuilds the map and starts the counters again from 0
load_registry_reset(index, schemas) ==
    LET keys == { SeriesKey_new(info.name, info.labels) : info \in index.series }
    IN  Some([schemas |-> schemas,
              series_map |-> [k \in keys |->
                  CHOOSE info \in index.series : SeriesKey_new(info.name, info.labels) = k],
              next_series_id |-> [i \in 1..Len(schemas) |-> 0],
              next_column |-> [i \in 1..Len(schemas) |-> 0]])

\* SeriesRegistry::load
load_registry(index, schemas) ==
    IF Len(schemas) # Len(index.next_series_id)
    THEN None
    ELSE LET keys == { SeriesKey_new(info.name, info.labels) : info \in index.series }
         IN  Some([schemas |-> schemas,
                   series_map |-> [k \in keys |->
                       CHOOSE info \in index.series : SeriesKey_new(info.name, info.labels) = k],
                   next_series_id |-> index.next_series_id,
                   next_column |-> index.next_column])

\* Store::register(name, labels): st is [registry, directories, index_file]
Store_register(st, name, labels) ==
    LET r == register(st.registry, name, labels)
    IN  IF ~r.ok
        THEN [registry |-> st.registry, directories |-> st.directories,
              index_file |-> st.index_file, ok |-> FALSE, handle |-> None, error |-> r.error]
        ELSE LET schema_index == r.handle.schema_index
             IN  [registry |-> r.registry,
                  directories |-> [st.directories EXCEPT
                                      ![schema_index + 1] = sync_to_slabs(r.registry, @)],
                  index_file |-> save(r.registry),
                  ok |-> TRUE, handle |-> r.handle, error |-> "none"]

\* the series part of a store that create_new just made for `schemas`
Store_create(schemas) ==
    [registry |-> SeriesRegistry_new(schemas),
     directories |-> [i \in 1..Len(schemas) |->
                        [t \in 1..Len(schemas[i].tiers) |-> Directory_create(schemas[i].max_series)]],
     index_file |-> save(SeriesRegistry_new(schemas))]

\* the store after registering the series named 1 .. count without labels
RECURSIVE register_names(_, _)
register_names(st, count) ==
    IF count = 0 THEN st
    ELSE LET r == Store_register(register_names(st, count - 1), count, <<>>)
         IN  [registry |-> r.registry, directories |-> r.directories, index_file |-> r.index_file]

\* a label list as a multiset: <<key, value>> -> the number of times it is in the list
label_bag(labels) ==
    [pair \in { labels[i] : i \in 1..Len(labels) } |->
        Cardinality({ i \in 1..Len(labels) : labels[i] = pair })]

\* a store of one schema in which every column has a registered series
InitSeries(schemas) ==
    LET st == register_names(Store_create(schemas), schemas[1].max_series)
    IN  /\ metadata = StoreMetadata_new(schemas)
        /\ registry = st.registry
        /\ index_file = st.index_file
        /\ directories = st.directories
        /\ issued = [key \in { <<name, label_bag(<<>>)>> : name \in 1..schemas[1].max_series } |->
                        get_handle(st.registry, key[1], <<>>)[1]]

----------------------------------------------------------------------------
(* Export: ExportCursor and the drain functions.  A cursor is a map from    *)
(* <<schema_index, tier_index, series_column>> to the last exported        *)
(* timestamp; make_key formats the three numbers with ":" between them,    *)
(* which is one-to-one.                                                    *)

ExportCursor_new == << >>

make_key(schema_index, tier_index, series_column) == <<schema_index, tier_index, series_column>>

\* ExportCursor::get
cursor_get(cursor, schema_index, tier_index, series_column) ==
    LET key == make_key(schema_index, tier_index, series_column)
    IN  IF key \in DOMAIN cursor THEN Some(cursor[key]) ELSE None

\* update with a fault: the map is replaced by the one entry, the others are forgotten
cursor_update_alone(cursor, schema_index, tier_index, series_column, timestamp) ==
    LET key == make_key(schema_index, tier_index, series_column)
    IN  [k \in {key} |-> timestamp]

\* ExportCursor::update
cursor_update(cursor, schema_index, tier_index, series_column, timestamp) ==
    LET key == make_key(schema_index, tier_index, series_column)
    IN  [k \in DOMAIN cursor \cup {key} |-> IF k = key THEN timestamp ELSE cursor[k]]

\* the cursor moved to the newest timestamp of the ring whatever was read
cursor_after_drain_newest(cursor, schema_index, tier_index, series_column, points, newest_ts) ==
    cursor_update(cursor, schema_index, tier_index, series_column, newest_ts)

\* the end of drain_series: the cursor moves to the last point read, if any
cursor_after_drain(cursor, schema_index, tier_index, series_column, points, newest_ts) ==
    IF points = <<>>
    THEN cursor
    ELSE cursor_update(cursor, schema_index, tier_index, series_column, points[Len(points)][1])

\* drain_series: the points returned and the cursor afterwards
drain_series(ring, schema_index, tier_index, series_column, cursor) ==
    LET last_exported == cursor_get(cursor, schema_index, tier_index, series_column)
        oldest == oldest_timestamp(ring)
        newest == newest_timestamp(ring)
    IN  IF oldest = None \/ newest = None
        THEN [points |-> <<>>, cursor |-> cursor]
        ELSE LET start == IF last_exported = None THEN oldest[1] ELSE last_exported[1] + 1
                 newest_ts == newest[1]
             IN  IF start > newest_ts
                 THEN [points |-> <<>>, cursor |-> cursor]
                 ELSE LET points == read(ring, series_column, start, newest_ts + 1)
                      IN  [points |-> points,
                           cursor |-> cursor_after_drain(cursor, schema_index, tier_index,
                                                         series_column, points, newest_ts)]

\* drain_tier over the handles in `hs`: the SeriesExport values and the cursor afterwards
RECURSIVE drain_tier(_, _, _, _, _)
drain_tier(all_rings, schema_index, tier_index, hs, cursor) ==
    IF hs = {}
    THEN [exports |-> {}, cursor |-> cursor]
    ELSE LET h == CHOOSE x \in hs : TRUE
             rest == drain_tier(all_rings, schema_index, tier_index, hs \ {h}, cursor)
         IN  IF h.schema_index # schema_index
             THEN rest
             ELSE LET d == drain_series(all_rings[schema_index + 1][tier_index], schema_index,
                                        tier_index, h.column, rest.cursor)
                  IN  [exports |-> IF d.points = <<>> THEN rest.exports
                                   ELSE rest.exports \cup {[handle |-> h, points |-> d.points]},
                       cursor |-> d.cursor]

\* Store::drain(tier, cursor) from schema `schema_index` on
RECURSIVE drain_from(_, _, _, _, _)
drain_from(all_rings, reg, tier, cursor, schema_index) ==
    IF schema_index >= Len(reg.schemas)
    THEN [exports |-> {}, cursor |-> cursor]
    ELSE LET schema_handles == { h \in handles(reg) : h.schema_index = schema_index }
         IN  IF schema_handles = {} \/ tier >= Cardinality(DOMAIN all_rings[schema_index + 1])
             THEN drain_from(all_rings, reg, tier, cursor, schema_index + 1)
             ELSE LET d == drain_tier(all_rings, schema_index, tier, schema_handles, cursor)
                      rest == drain_from(all_rings, reg, tier, d.cursor, schema_index + 1)
                  IN  [exports |-> d.exports \cup rest.exports, cursor |-> rest.cursor]

\* Store::drain
drain(all_rings, reg, tier, cursor) == drain_from(all_rings, reg, tier, cursor, 0)

\* the caller's cursor and its file before the first drain
InitExport ==
    /\ export = ExportCursor_new
    /\ export_file = <<>>
    /\ drained = <<>>

----------------------------------------------------------------------------
(* Store operations *)

\* the values a caller passes to record
RecordValues == {NaN, Infinity, F(1), F(2)}

\* Store::record(handle, value, timestamp_ns) for a handle with column `column`
Record(column, value, timestamp_ns) ==
    /\ LET w == write(rings[0], column, value, timestamp_ns)
       IN  /\ rings' = [rings EXCEPT ![0] = w.ring]
           /\ history' = IF w.ok THEN Append(history, <<column, timestamp_ns, value>>) ELSE history
           /\ ret' = [op |-> "record", res |-> IF w.ok THEN Ok(0) ELSE Err, ops |-> <<>>]
    /\ UNCHANGED <<schema, metadata, cursors, series_vars, export_vars>>

\* the store is closed and opened again with the same schemas
Reopen ==
    /\ rings' = open_existing(rings)
    /\ registry' = load_registry(index_file, registry.schemas)[1]
    /\ ret' = [op |-> "open", res |-> Ok(0), ops |-> <<>>]
    /\ UNCHANGED <<schema, metadata, cursors, history, index_file, directories, issued, export_vars>>

\* Store::consolidate
Consolidate ==
    /\ \E o \in consolidate(schema, rings, cursors) :
          /\ rings' = o.rings
          /\ cursors' = o.cursors
          /\ ret' = [op |-> "consolidate", res |-> o.res, ops |-> o.ops]
    /\ UNCHANGED <<schema, metadata, history, series_vars, export_vars>>

----------------------------------------------------------------------------
(* The ring of a single-tier store under arbitrary record calls and reopens *)

\* a one-tier schema with two series (the shape of the store tests' schema, scaled down)
RingSchema ==
    [ tiers |-> << [interval |-> 2, retention |-> 6, fn |-> "None"] >>,
      max_series |-> 2 ]

InitRing ==
    /\ schema = RingSchema
    /\ rings = create_new(RingSchema)
    /\ cursors = <<>>
    /\ ret = [op |-> "open", res |-> Ok(0), ops |-> <<>>]
    /\ history = <<>>
    /\ InitSeries(<<schema>>)
    /\ InitExport

NextRing ==
    \/ /\ Len(history) < MaxRecords
       /\ \E column \in 0..(schema.max_series - 1), value \in RecordValues, ts \in 0..MaxTs :
             Record(column, value, ts)
    \/ Reopen

SpecRing == InitRing /\ [][NextRing]_vars

\* the end of a full-range query: larger than every timestamp of the model
FullRangeEnd == MaxTs + MaxBase + 2 * MaxSeqLen + 1

\* a full-range read of tier 0 for a column
ReadAll(column) == read(rings[0], column, 0, FullRangeEnd)

RECURSIVE StrictlyIncreasing(_)
StrictlyIncreasing(points) ==
    \/ Len(points) <= 1
    \/ /\ points[1][1] < points[2][1]
       /\ StrictlyIncreasing(Tail(points))

\* C1: a full-range read of any column yields strictly increasing timestamps and no NaN
C1_ReadOrdered ==
    \A column \in 0..(schema.max_series - 1) :
        /\ StrictlyIncreasing(ReadAll(column))
        /\ \A i \in 1..Len(ReadAll(column)) : ~is_nan(ReadAll(column)[i][2])

\* the samples recorded so far for a column, as <<ts, value>> pairs
RecordedFor(column) ==
    { <<history[i][2], history[i][3]>> : i \in {j \in 1..Len(history) : history[j][1] = column} }

\* C2: every point a full-range query of a series returns was recorded for that series
\* with exactly that timestamp and value
C2_OnlyOwnPoints ==
    \A column \in 0..(schema.max_series - 1) :
        \A i \in 1..Len(ReadAll(column)) : ReadAll(column)[i] \in RecordedFor(column)

SetMax(S) == CHOOSE x \in S : \A y \in S : y <= x

SetMin(S) == CHOOSE x \in S : \A y \in S : x <= y

\* C4: after successful writes in any order, newest_timestamp is the largest timestamp written
C4_NewestIsMax ==
    history # <<>> =>
        newest_timestamp(rings[0]) = Some(SetMax({history[i][2] : i \in 1..Len(history)}))

\* the non-zero timestamps stored in a ring
StoredTimestamps(ring) ==
    {ring.slab.ts[s] : s \in 0..(ring.slab.slot_count - 1)} \ {0}

\* C5: oldest_timestamp is None only for an empty ring, and otherwise the smallest
\* timestamp stored
C5_OldestIsMin ==
    IF StoredTimestamps(rings[0]) = {}
    THEN oldest_timestamp(rings[0]) = None
    ELSE oldest_timestamp(rings[0]) = Some(SetMin(StoredTimestamps(rings[0])))

\* C6: reopening the ring from its slab preserves has_wrapped, oldest and newest
\* timestamp and the full-range read of every column
C6_ReopenPreserves ==
    LET reopened == RingBuffer_new(rings[0].slab)
    IN  /\ reopened.has_wrapped = rings[0].has_wrapped
        /\ oldest_timestamp(reopened) = oldest_timestamp(rings[0])
        /\ newest_timestamp(reopened) = newest_timestamp(rings[0])
        /\ \A column \in 0..(schema.max_series - 1) :
              read(reopened, column, 0, FullRangeEnd) = ReadAll(column)

----------------------------------------------------------------------------
(* The sequential workload: one series, samples at base + i * interval *)

\* one-tier schemas of 1, 2 and 3 slots
SeqSchemas ==
    { [ tiers |-> << [interval |-> 2, retention |-> r, fn |-> "None"] >>, max_series |-> 2 ]
        : r \in {2, 4, 6} }

InitSeq ==
    /\ schema \in SeqSchemas
    /\ rings = create_new(schema)
    /\ cursors = <<>>
    /\ ret = [op |-> "open", res |-> Ok(0), ops |-> <<>>]
    /\ history = <<>>
    /\ InitSeries(<<schema>>)
    /\ InitExport

\* the first sample, at any base > 0
RecordFirst ==
    /\ history = <<>>
    /\ \E base \in 1..MaxBase, value \in {NaN, F(1), F(2)} : Record(0, value, base)

\* the next sample, one interval after the last
RecordNext ==
    /\ history # <<>>
    /\ Len(history) < MaxSeqLen
    /\ \E value \in {NaN, F(1), F(2)} :
          Record(0, value, history[Len(history)][2] + Tier(0).interval)

NextSeq == RecordFirst \/ RecordNext

SpecSeq == InitSeq /\ [][NextSeq]_vars

\* the last n elements of a sequence
LastN(sq, n) == SubSeq(sq, Len(sq) - n + 1, Len(sq))

SetMinOf2(a, b) == IF a < b THEN a ELSE b

\* the <<ts, value>> pairs of the most recent min(k, slot_count) samples, NaN samples left out
MostRecentSamples ==
    LET recent == LastN(history, SetMinOf2(Len(history), slot_count(Tier(0))))
        pts    == [i \in 1..Len(recent) |-> <<recent[i][2], recent[i][3]>>]
    IN  SelectSeq(pts, LAMBDA p : ~is_nan(p[2]))

\* C3: after k sequential samples a full-range query of tier 0 returns at most slot_count
\* points, exactly the most recent min(k, slot_count) samples, the last written one last
C3_MostRecentKept ==
    /\ Len(ReadAll(0)) <= slot_count(Tier(0))
    /\ ReadAll(0) = MostRecentSamples
    /\ (history # <<>> /\ ~is_nan(history[Len(history)][3])) =>
          ReadAll(0)[Len(ReadAll(0))] =
              <<history[Len(history)][2], history[Len(history)][3]>>

\* more samples than slots were written, none NaN, and the query returns a full ring
C3_Witness ==
    /\ slot_count(Tier(0)) = 3
    /\ Len(history) > 2 * slot_count(Tier(0))
    /\ \A i \in 1..Len(history) : ~is_nan(history[i][3])
    /\ rings[0].has_wrapped
    /\ Len(ReadAll(0)) = 3

----------------------------------------------------------------------------
(* The store: record, consolidate and reopen in any interleaving *)

\* tiered schemas in the shape of the consolidation tests' schemas, scaled down
\* (intervals 1, 2, 4 for 1 s, 10 s, 60 s)
StoreSchemas ==
    { [ tiers |-> << [interval |-> 1, retention |-> 3, fn |-> "None"],
                     [interval |-> 2, retention |-> 4, fn |-> "Average"] >>,
        max_series |-> 2 ],
      [ tiers |-> << [interval |-> 1, retention |-> 4, fn |-> "None"],
                     [interval |-> 2, retention |-> 6, fn |-> "Average"],
                     [interval |-> 4, retention |-> 8, fn |-> "Sum"] >>,
        max_series |-> 1 ] }

\* the values recorded into the store
StoreValues == {NaN, F(1), F(2)}

Init ==
    /\ schema \in StoreSchemas
    /\ rings = create_new(schema)
    /\ cursors = <<>>
    /\ ret = [op |-> "open", res |-> Ok(0), ops |-> <<>>]
    /\ history = <<>>
    /\ InitSeries(<<schema>>)
    /\ InitExport

Next ==
    \/ /\ Len(history) < MaxStoreRecords
       /\ \E column \in 0..(schema.max_series - 1), value \in StoreValues, ts \in 0..MaxStoreTs :
             Record(column, value, ts)
    \/ Consolidate
    \/ Reopen

Spec == Init /\ [][Next]_vars

\* the store under record and consolidate calls only, without reopening in between
NextCalls ==
    \/ /\ Len(history) < MaxStoreRecords
       /\ \E column \in 0..(schema.max_series - 1), value \in StoreValues, ts \in 0..MaxStoreTs :
             Record(column, value, ts)
    \/ Consolidate

SpecCalls == Init /\ [][NextCalls]_vars

\* C7: two consecutive consolidate calls with no record in between: the second call
\* leaves every ring and every cursor as the first left them, and returns 0
C7_ConsolidateIdempotent ==
    [][ (ret.op = "consolidate" /\ ret'.op = "consolidate")
          => (rings' = rings /\ cursors' = cursors /\ ret'.res = Ok(0)) ]_vars

\* a second consolidate call right after one that returned without error changes
\* nothing and returns 0
IdempotentAfterSuccess ==
    [][ (ret.op = "consolidate" /\ ret.res.ok /\ ret'.op = "consolidate")
          => (rings' = rings /\ cursors' = cursors /\ ret'.res = Ok(0)) ]_vars

\* the persisted last-processed timestamp of the pair (i, i + 1); a pair without an
\* entry is read as 0 by get_or_initialize_cursor
LastProcessed(file, i) ==
    IF file = <<>> THEN 0
    ELSE IF i \in DOMAIN file[1] THEN file[1][i] ELSE 0

\* C9: no step (record, consolidate, reopen) decreases a cursor's last-processed
\* timestamp; a step that changes it is a consolidate pass that wrote at least one
\* destination value for the pair, and the new value is the source tier's newest timestamp
C9_CursorMonotonic ==
    [][ \A i \in 0..(NumTiers - 2) :
          /\ LastProcessed(cursors', i) >= LastProcessed(cursors, i)
          /\ LastProcessed(cursors', i) # LastProcessed(cursors, i)
               => /\ ret'.op = "consolidate"
                  /\ ret'.res.ok
                  /\ ret'.ops[i + 1] > 0
                  /\ newest_timestamp(rings'[i]) = Some(LastProcessed(cursors', i)) ]_vars

\* a three-tier store after a second record and a pass that wrote for both pairs and
\* left both cursors at their source tiers' newest timestamps
C9_Witness ==
    /\ NumTiers = 3
    /\ Len(history) >= 2
    /\ ret.op = "consolidate" /\ ret.res.ok
    /\ ret.ops[1] > 0 /\ ret.ops[2] > 0
    /\ LastProcessed(cursors, 0) > 0 /\ LastProcessed(cursors, 1) > 0
    /\ newest_timestamp(rings[0]) = Some(LastProcessed(cursors, 0))

\* what consolidate can return and leave behind when the store is closed, reopened with
\* the same schemas and consolidate is called without a new record
AfterReopen == consolidate(schema, open_existing(rings), cursors)

----------------------------------------------------------------------------
(* The window workload: samples recorded in time order into a new two-tier store,  *)
(* then one consolidate call                                                       *)

\* two tiers and two series, the destination reducer being any of the six
\* (the shape of schema_with_fn, scaled down: 4 source intervals per window)
WindowSchemas ==
    { [ tiers |-> << [interval |-> 1, retention |-> 8, fn |-> "None"],
                     [interval |-> 4, retention |-> 16, fn |-> fn] >>,
        max_series |-> 2 ] : fn \in ConsolidationFns }

InitWindow ==
    /\ schema \in WindowSchemas
    /\ rings = create_new(schema)
    /\ cursors = <<>>
    /\ ret = [op |-> "open", res |-> Ok(0), ops |-> <<>>]
    /\ history = <<>>
    /\ InitSeries(<<schema>>)
    /\ InitExport

\* the next sample, later than every sample recorded so far
RecordLater ==
    /\ ret.op # "consolidate"
    /\ Len(history) < MaxWindowRecords
    /\ \E column \in 0..(schema.max_series - 1), value \in StoreValues, ts \in 1..MaxWindowTs :
          /\ history # <<>> => ts > history[Len(history)][2]
          /\ Record(column, value, ts)

\* consolidate is called once, after the samples
ConsolidateOnce == ret.op # "consolidate" /\ Consolidate

NextWindow == RecordLater \/ ConsolidateOnce

SpecWindow == InitWindow /\ [][NextWindow]_vars

\* the recorded values of a column that fall in window w, in time order
RECURSIVE SamplesIn(_, _, _)
SamplesIn(h, column, w) ==
    IF h = <<>> THEN <<>>
    ELSE LET rest == SamplesIn(Tail(h), column, w)
         IN  IF h[1][1] = column /\ window_start(h[1][2], Tier(1).interval) = w
             THEN <<h[1][3]>> \o rest
             ELSE rest

\* the windows in which a column has at least one recorded non-NaN sample
WindowsOf(column) ==
    { window_start(history[i][2], Tier(1).interval) :
        i \in { j \in 1..Len(history) : history[j][1] = column /\ ~is_nan(history[j][3]) } }

\* C8: once the samples are recorded and consolidate has been called, tier 1 holds for
\* every window in which a series has samples exactly one point of that series, at
\* window_start, with the reducer applied to the series' samples of that window
C8_WindowReduced ==
    ret.op = "consolidate"
        => \A column \in 0..(schema.max_series - 1) : \A w \in WindowsOf(column) :
              read(rings[1], column, w, w + Tier(1).interval)
                = << <<w, apply(Tier(1).fn, SamplesIn(history, column, w))>> >>

\* the same for samples none of which falls into the window that starts at 0
WindowReducedAboveZero ==
    (ret.op = "consolidate" /\ \A i \in 1..Len(history) : history[i][2] >= Tier(1).interval)
        => \A column \in 0..(schema.max_series - 1) : \A w \in WindowsOf(column) :
              read(rings[1], column, w, w + Tier(1).interval)
                = << <<w, apply(Tier(1).fn, SamplesIn(history, column, w))>> >>

\* C11: in one consolidate call every window the step tier i -> tier i+1 writes into
\* tier i+1 is read by the step tier i+1 -> tier i+2 of the same call
C11_CascadeConsumes ==
    \A o \in consolidate(schema, rings, cursors) :
        o.res.ok => \A i \in 1..(Len(o.steps) - 1) : o.steps[i].wrote \subseteq o.steps[i + 1].seen

----------------------------------------------------------------------------
(* Drains of a one-tier store interleaved with records whose timestamps     *)
(* never go back.                                                          *)

MaxDrainTs == 6
MaxDrainRecords == 4
MaxDrains == 3

DrainSchema ==
    [ tiers |-> << [interval |-> 1, retention |-> 3, fn |-> "None"] >>,
      max_series |-> 2 ]

DrainValues == {F(1)}

InitDrain ==
    /\ schema = DrainSchema
    /\ rings = create_new(DrainSchema)
    /\ cursors = <<>>
    /\ ret = [op |-> "open", res |-> Ok(0), ops |-> <<>>]
    /\ history = <<>>
    /\ InitSeries(<<schema>>)
    /\ InitExport

\* the points of a set of SeriesExport values, each <<tier, column, timestamp>>
export_points(tier, exports) ==
    UNION { { <<tier, e.handle.column, e.points[k][1]>> : k \in 1..Len(e.points) } : e \in exports }

\* Store::drain(tier, &mut cursor) with the caller's cursor
Drain(tier) ==
    /\ LET d == drain(<<rings>>, registry, tier, export)
       IN  /\ export' = d.cursor
           /\ ret' = [op |-> "drain", res |-> Ok(0), ops |-> <<>>, tier |-> tier,
                      exports |-> d.exports]
           /\ drained' = Append(drained, export_points(tier, d.exports))
    /\ UNCHANGED <<schema, metadata, rings, cursors, history, series_vars, export_file>>

\* ExportCursor::save
SaveCursor ==
    /\ export_file # <<export>>
    /\ export_file' = <<export>>
    /\ ret' = [op |-> "save_cursor", res |-> Ok(0), ops |-> <<>>]
    /\ UNCHANGED <<schema, metadata, rings, cursors, history, series_vars, export, drained>>

\* a record whose timestamp is not before the one of the record before it
RecordInOrder ==
    /\ Len(history) < MaxDrainRecords
    /\ \E h \in handles(registry), value \in DrainValues, timestamp_ns \in 1..MaxDrainTs :
          /\ history # <<>> => history[Len(history)][2] <= timestamp_ns
          /\ Record(h.column, value, timestamp_ns)

NextDrain ==
    \/ RecordInOrder
    \/ Len(drained) < MaxDrains /\ \E tier \in 0..NumTiers : Drain(tier)
    \/ SaveCursor

SpecDrain == InitDrain /\ [][NextDrain]_vars

\* the samples recorded for a column that tier `tier` still stores, each <<timestamp, value>>
StoredSamples(tier, column) ==
    LET slab == rings[tier].slab
    IN  { p \in RecordedFor(column) :
            \E s \in 0..(slab.slot_count - 1) : slab.ts[s] = p[1] /\ slab.val[s][column] = p[2] }

\* the points a drain of `tier` with the caller's cursor returns for a handle
DrainedFor(tier, h) ==
    LET found == { e \in drain(<<rings>>, registry, tier, export).exports : e.handle = h }
    IN  UNION { { e.points[k] : k \in 1..Len(e.points) } : e \in found }

\* C12: a drain of a tier returns, for every registered series, every stored sample of
\* the series that is newer than the series' cursor entry, and every stored sample when
\* the series has no entry
C12_DrainReturnsNewer ==
    \A tier \in 0..(NumTiers - 1), h \in handles(registry) :
        LET entry == cursor_get(export, h.schema_index, tier, h.column)
        IN  \A p \in StoredSamples(tier, h.column) :
                (entry = None \/ p[1] > entry[1]) => p \in DrainedFor(tier, h)

\* the points the drains so far returned
AllDrained == UNION { drained[i] : i \in 1..Len(drained) }

\* the points one drain of `tier` with a new cursor returns
WholeRange(tier) == export_points(tier, drain(<<rings>>, registry, tier, ExportCursor_new).exports)

\* no point was returned by two drains
NoPointTwice ==
    \A i \in 1..Len(drained), j \in 1..Len(drained) : i < j => drained[i] \cap drained[j] = {}

\* right after a drain of a tier, every point one drain over the whole range returns was
\* returned by some drain
UnionCoversWholeRange ==
    ret.op = "drain" => WholeRange(ret.tier) \subseteq AllDrained

\* C13: over any interleaving of records and drains with one cursor no (series, timestamp)
\* point is returned by more than one drain, and the drains together return what one
\* drain over the whole range returns
C13_DrainProgressive == NoPointTwice /\ UnionCoversWholeRange

----------------------------------------------------------------------------
(* Drains and cursor saves interleaved with records of any timestamps.      *)

MaxExportTs == 3
MaxExportRecords == 2
MaxExportDrains == 2

ExportValues == {NaN, F(1)}

RecordAny ==
    /\ Len(history) < MaxExportRecords
    /\ \E h \in handles(registry), value \in ExportValues, timestamp_ns \in 1..MaxExportTs :
          Record(h.column, value, timestamp_ns)

NextExport ==
    \/ RecordAny
    \/ Len(drained) < MaxExportDrains /\ \E tier \in 0..NumTiers : Drain(tier)
    \/ SaveCursor

SpecExport == InitDrain /\ [][NextExport]_vars

----------------------------------------------------------------------------
(* Registrations in a store of two schemas, with reopens in between.        *)

MaxLabels == 2

\* schema 0 takes the series labelled 1 = 1 and has two tiers; schema 1 takes every series
\* in the first store and the series labelled 2 = 1 in the second
RegistrySchemaSets ==
    LET first == [label_matcher |-> {<<1, 1>>}, max_series |-> 1,
                  tiers |-> << [interval |-> 1, retention |-> 2, fn |-> "None"],
                               [interval |-> 2, retention |-> 4, fn |-> "Average"] >>]
        second(required) == [label_matcher |-> required, max_series |-> 1,
                             tiers |-> << [interval |-> 1, retention |-> 2, fn |-> "None"] >>]
    IN  { <<first, second({})>>, <<first, second({<<2, 1>>})>> }

Names == {0, 1}

LabelPairs == {<<1, 1>>, <<1, 2>>, <<2, 1>>}

\* the label lists register is called with: every list of up to MaxLabels valid pairs, and
\* one list for each reason a label is rejected for
LabelLists ==
    UNION { [1..n -> LabelPairs] : n \in 0..MaxLabels }
        \cup { <<<<0, 1>>>>, <<<<1, 0>>>>, <<<<ReservedKey, 1>>>> }

InitRegistry ==
    /\ \E schemas \in RegistrySchemaSets :
          /\ schema = schemas[1]
          /\ metadata = StoreMetadata_new(schemas)
          /\ registry = Store_create(schemas).registry
          /\ index_file = Store_create(schemas).index_file
          /\ directories = Store_create(schemas).directories
    /\ rings = create_new(schema)
    /\ cursors = <<>>
    /\ ret = [op |-> "open", res |-> Ok(0), ops |-> <<>>]
    /\ history = <<>>
    /\ issued = << >>
    /\ InitExport

\* the store as Store_register takes it
store == [registry |-> registry, directories |-> directories, index_file |-> index_file]

\* Store::register(name, labels)
Register(name, labels) ==
    LET r == Store_register(store, name, labels)
        key == <<name, label_bag(labels)>>
    IN  /\ registry' = r.registry
        /\ directories' = r.directories
        /\ index_file' = r.index_file
        /\ issued' = IF r.ok /\ key \notin DOMAIN issued
                     THEN [k \in DOMAIN issued \cup {key} |-> IF k = key THEN r.handle ELSE issued[k]]
                     ELSE issued
        /\ ret' = [op |-> "register", res |-> IF r.ok THEN Ok(0) ELSE Err, ops |-> <<>>,
                   handle |-> r.handle, error |-> r.error]
        /\ UNCHANGED <<schema, metadata, rings, cursors, history, export_vars>>

NextRegistry ==
    \/ \E name \in Names, labels \in LabelLists : Register(name, labels)
    \/ Reopen

SpecRegistry == InitRegistry /\ [][NextRegistry]_vars

\* the label lists with the pairs of `labels` in every order
orders(labels) ==
    { [i \in 1..Len(labels) |-> labels[p[i]]] : p \in Permutations(1..Len(labels)) }

\* registering an issued name and label multiset again, in any order, returns the issued handle
SameHandleAgain ==
    \A name \in Names, labels \in LabelLists :
        <<name, label_bag(labels)>> \in DOMAIN issued =>
            \A again \in orders(labels) :
                LET r == Store_register(store, name, again)
                IN  r.ok /\ r.handle = issued[<<name, label_bag(labels)>>]

\* registering an issued name and label multiset again leaves the counters alone
SameCountersAgain ==
    \A name \in Names, labels \in LabelLists :
        <<name, label_bag(labels)>> \in DOMAIN issued =>
            \A again \in orders(labels) :
                LET r == Store_register(store, name, again)
                IN  /\ r.registry.next_series_id = registry.next_series_id
                    /\ r.registry.next_column = registry.next_column
                    /\ \A i \in 0..(Len(registry.schemas) - 1) :
                          series_count(r.registry, i) = series_count(registry, i)

\* registering an issued name and label multiset again leaves the slab directories alone
SameDirectoriesAgain ==
    \A name \in Names, labels \in LabelLists :
        <<name, label_bag(labels)>> \in DOMAIN issued =>
            \A again \in orders(labels) :
                Store_register(store, name, again).directories = directories

\* C15: registering a name and label set that is already registered, the labels in any
\* order, returns the handle of the first registration and leaves the series counts, the
\* allocation counters and the slab directories unchanged
C15_RegisterAgain == SameHandleAgain /\ SameCountersAgain /\ SameDirectoriesAgain

\* the series registered in schema `schema_index`
series_of(schema_index) == { info \in infos(registry) : info.schema_index = schema_index }

\* C16: after a successful Store::register the slab of every schema and tier has the
\* schema's number of registered series as series_count and a series directory that maps
\* the id of each registered series of the schema to its column and nothing else
C16_DirectoriesInSync ==
    (ret.op = "register" /\ ret.res.ok) =>
        \A s \in 0..(Len(registry.schemas) - 1) :
            \A t \in 1..Len(registry.schemas[s + 1].tiers) :
                LET dir == directories[s + 1][t]
                IN  /\ dir.series_count = Cardinality(series_of(s))
                    /\ ~dir.overrun
                    /\ \A id \in DOMAIN dir.series_dir :
                          dir.series_dir[id] =
                              IF \E info \in series_of(s) : info.series_id = id
                              THEN Some((CHOOSE info \in series_of(s) : info.series_id = id).column)
                              ELSE None

\* a name and labels that register accepts and that were not registered before
NewSeries(name, labels) ==
    /\ validate_name(name)
    /\ validate_labels(labels)
    /\ <<name, label_bag(labels)>> \notin DOMAIN issued

\* C17: no schema holds more series than its max_series, and registering a new series
\* that routes to a schema holding max_series series fails with MaxSeriesExceeded and
\* leaves the registry, its counters, the slab directories and the index file unchanged
C17_MaxSeries ==
    /\ \A s \in 0..(Len(registry.schemas) - 1) :
          /\ Cardinality(series_of(s)) <= registry.schemas[s + 1].max_series
          /\ registry.next_series_id[s + 1] <= registry.schemas[s + 1].max_series
    /\ \A name \in Names, labels \in LabelLists :
          LET found == find_matching_schema(registry, labels)
              r == Store_register(store, name, labels)
          IN  (/\ NewSeries(name, labels)
               /\ found # None
               /\ Cardinality(series_of(found[1])) = registry.schemas[found[1] + 1].max_series)
              => /\ ~r.ok
                 /\ r.error = "MaxSeriesExceeded"
                 /\ r.registry = registry
                 /\ r.directories = directories
                 /\ r.index_file = index_file

\* a registration has just failed because the schema it routes to is full
C17_Witness ==
    /\ ret.op = "register"
    /\ ret.error = "MaxSeriesExceeded"
    /\ \E s \in 0..(Len(registry.schemas) - 1) :
          Cardinality(series_of(s)) = registry.schemas[s + 1].max_series

\* the schemas whose required pairs are all among the labels
accepting(labels) ==
    { s \in 0..(Len(registry.schemas) - 1) :
        \A pair \in label_matcher(registry.schemas[s + 1]) :
            \E i \in 1..Len(labels) : labels[i] = pair }

\* a new series is routed to the lowest-indexed accepting schema, and to none when no
\* schema accepts it
routed_as_required(name, labels) ==
    LET r == Store_register(store, name, labels)
    IN  NewSeries(name, labels) =>
            IF accepting(labels) = {}
            THEN /\ ~r.ok
                 /\ r.error = "NoMatchingSchema"
                 /\ r.registry = registry
                 /\ r.directories = directories
                 /\ r.index_file = index_file
            ELSE LET lowest == CHOOSE s \in accepting(labels) : \A o \in accepting(labels) : s <= o
                 IN  IF r.ok THEN r.handle.schema_index = lowest
                     ELSE /\ r.error = "MaxSeriesExceeded"
                          /\ Cardinality(series_of(lowest)) = registry.schemas[lowest + 1].max_series

\* C18: a new series goes to the lowest-indexed schema whose required pairs are all among
\* its labels, and when no schema has that, register fails with NoMatchingSchema and
\* registers nothing
C18_Routing == \A name \in Names, labels \in LabelLists : routed_as_required(name, labels)

\* no two labels of the list have the same key
DistinctKeys(labels) == \A i, j \in 1..Len(labels) : labels[i][1] = labels[j][1] => i = j

\* the routing of label lists without a repeated key
RoutingDistinctKeys ==
    \A name \in Names, labels \in LabelLists : DistinctKeys(labels) => routed_as_required(name, labels)

\* registering again with labels without a repeated key returns the issued handle and
\* leaves the registry as it is
SameHandleDistinctKeys ==
    \A name \in Names, labels \in LabelLists :
        (DistinctKeys(labels) /\ <<name, label_bag(labels)>> \in DOMAIN issued) =>
            \A again \in orders(labels) :
                LET r == register(registry, name, again)
                IN  r.ok /\ r.handle = issued[<<name, label_bag(labels)>>] /\ r.registry = registry

\* the columns the series of a schema use in registry `reg`
columns_used(reg, schema_index) ==
    { info.column : info \in { i \in infos(reg) : i.schema_index = schema_index } }

\* C19: a reopen keeps the handle of every registered series, for a lookup and for a
\* registration of the same name and labels, keeps the series count of every schema, and
\* a series registered first after it gets a column no series of its schema uses
C19_ReopenKeepsSeries ==
    [][ret'.op = "open" =>
          /\ \A name \in Names, labels \in LabelLists :
                LET before == get_handle(registry, name, labels)
                    after == register(registry', name, labels)
                IN  IF before # None
                    THEN /\ get_handle(registry', name, labels) = before
                         /\ after.ok
                         /\ after.handle = before[1]
                    ELSE /\ get_handle(registry', name, labels) = None
                         /\ after.ok =>
                               after.handle.column \notin columns_used(registry', after.handle.schema_index)
          /\ \A s \in 0..(Len(registry.schemas) - 1) :
                series_count(registry', s) = series_count(registry, s)
      ]_vars

\* the store was reopened with a registered series in it and room for another
C19_Witness ==
    /\ ret.op = "open"
    /\ DOMAIN registry.series_map # {}
    /\ \E s \in 0..(Len(registry.schemas) - 1) :
          series_count(registry, s) < registry.schemas[s + 1].max_series
    /\ \E name \in Names, labels \in LabelLists :
          get_handle(registry, name, labels) = None /\ register(registry, name, labels).ok

----------------------------------------------------------------------------
(* record and record_batch calls with valid and invalid arguments on a      *)
(* store of one tier.                                                      *)

MaxWriteTs == 3
MaxWriteCalls == 3
MaxBatch == 2

WriteValues == {Infinity, F(1)}

\* the batches record_batch is called with: up to MaxBatch <<column, value>> entries
Batches ==
    UNION { [1..n -> (0..(RingSchema.max_series - 1)) \X WriteValues] : n \in 0..MaxBatch }

\* record_batch with a fault: write_batch is called for an empty batch too
record_batch_always(rs, entries, timestamp_ns) ==
    LET w == write_batch(rs[0], entries, timestamp_ns)
    IN  [rings |-> [rs EXCEPT ![0] = w.ring], ok |-> w.ok]

\* Store::record_batch(entries, timestamp_ns) in a store of one schema, rs its rings: the
\* entries form one group, and without entries there is no group and no write_batch call
record_batch(rs, entries, timestamp_ns) ==
    LET w == IF entries = <<>> THEN [ring |-> rs[0], ok |-> TRUE]
             ELSE write_batch(rs[0], entries, timestamp_ns)
    IN  [rings |-> [rs EXCEPT ![0] = w.ring], ok |-> w.ok]

RecordBatch(entries, timestamp_ns) ==
    /\ LET w == record_batch(rings, entries, timestamp_ns)
       IN  /\ rings' = w.rings
           /\ history' = IF w.ok
                         THEN history \o [i \in 1..Len(entries) |->
                                             <<entries[i][1], timestamp_ns, entries[i][2]>>]
                         ELSE history
           /\ ret' = [op |-> "record_batch", res |-> IF w.ok THEN Ok(0) ELSE Err, ops |-> <<>>]
    /\ UNCHANGED <<schema, metadata, cursors, series_vars, export_vars>>

NextWrite ==
    \/ /\ Len(history) < MaxWriteCalls
       /\ \E h \in handles(registry), value \in WriteValues, timestamp_ns \in 0..MaxWriteTs :
             Record(h.column, value, timestamp_ns)
    \/ /\ Len(history) < MaxWriteCalls
       /\ \E entries \in Batches, timestamp_ns \in 0..MaxWriteTs :
             RecordBatch(entries, timestamp_ns)

SpecWrite == InitRing /\ [][NextWrite]_vars

\* C20: write and write_batch fail exactly when the timestamp is 0 or a value is
\* infinite, and a call that fails leaves every slot's timestamp and values, the write
\* cursor and the wrapped flag as they were, so a failed batch stores none of its entries
C20_RejectedWriteChangesNothing ==
    /\ \A column \in 0..(schema.max_series - 1), value \in WriteValues, timestamp_ns \in 0..MaxWriteTs :
          LET w == write(rings[0], column, value, timestamp_ns)
          IN  /\ w.ok <=> ~(timestamp_ns = 0 \/ value = Infinity)
              /\ ~w.ok => w.ring = rings[0]
    /\ \A entries \in Batches, timestamp_ns \in 0..MaxWriteTs :
          LET w == write_batch(rings[0], entries, timestamp_ns)
          IN  /\ w.ok <=> ~(timestamp_ns = 0 \/ \E i \in 1..Len(entries) : entries[i][2] = Infinity)
              /\ ~w.ok => w.ring = rings[0]

\* a batch has just been rejected by a ring that holds samples and has wrapped
C20_Witness ==
    /\ ret.op = "record_batch"
    /\ ~ret.res.ok
    /\ rings[0].has_wrapped
    /\ \E s \in 0..(rings[0].slab.slot_count - 1) : rings[0].slab.ts[s] # 0

----------------------------------------------------------------------------
(* Errors and stable state *)

\* the <<tier, slot>> pairs whose timestamp or values differ between two ring vectors
changed_slots(before, after) ==
    { <<t, s>> \in UNION { {t} \X (0..(before[t].slab.slot_count - 1)) : t \in DOMAIN before } :
        \/ after[t].slab.ts[s] # before[t].slab.ts[s]
        \/ after[t].slab.val[s] # before[t].slab.val[s] }

\* C21: an operation that returns an error leaves the cursor file, the registry, the
\* index file, the export cursor file and every write cursor as they were, and changes
\* at most one slot
C21_ErrorNoSideEffect ==
    [][~ret'.res.ok =>
          /\ cursors' = cursors
          /\ registry' = registry
          /\ index_file' = index_file
          /\ export_file' = export_file
          /\ \A t \in DOMAIN rings : rings'[t].slab.write_cursor = rings[t].slab.write_cursor
          /\ Cardinality(changed_slots(rings, rings')) <= 1
      ]_vars

----------------------------------------------------------------------------
(* Queries *)

\* analyze_coverage(oldest, newest, start_ns, end_ns)
analyze_coverage(oldest, newest, start_ns, end_ns) ==
    IF oldest # None /\ newest # None
    THEN [fully_covered     |-> start_ns >= oldest[1] /\ end_ns <= newest[1],
          may_be_incomplete |-> start_ns < oldest[1]]
    ELSE [fully_covered |-> FALSE, may_be_incomplete |-> TRUE]

\* Store::query on the rings of the handle's schema: the QueryResult, its iterator collected
query(rs, column, tier, start_ns, end_ns) ==
    IF tier >= Cardinality(DOMAIN rs) THEN [ok |-> FALSE, error |-> "InvalidTier"]
    ELSE IF start_ns >= end_ns THEN [ok |-> FALSE, error |-> "InvalidTimeRange"]
    ELSE LET ring   == rs[tier]
             oldest == oldest_timestamp(ring)
             newest == newest_timestamp(ring)
         IN  [ok |-> TRUE, error |-> "none",
              points            |-> read(ring, column, start_ns, end_ns),
              tier_used         |-> tier,
              available_range   |-> <<oldest, newest>>,
              requested_range   |-> <<start_ns, end_ns>>,
              may_be_incomplete |-> analyze_coverage(oldest, newest, start_ns, end_ns).may_be_incomplete]

\* the tier loop of query_auto, from tier_index on: the selected tier
RECURSIVE select_tier(_, _, _, _, _)
select_tier(rs, start_ns, end_ns, tier_index, selected_tier) ==
    IF tier_index >= Cardinality(DOMAIN rs) THEN selected_tier
    ELSE LET oldest == oldest_timestamp(rs[tier_index])
             newest == newest_timestamp(rs[tier_index])
         IN  IF analyze_coverage(oldest, newest, start_ns, end_ns).fully_covered THEN tier_index
             ELSE IF oldest # None /\ newest # None
                  THEN select_tier(rs, start_ns, end_ns, tier_index + 1, tier_index)
                  ELSE select_tier(rs, start_ns, end_ns, tier_index + 1, selected_tier)

\* Store::query_auto on the rings of the handle's schema
query_auto(rs, column, start_ns, end_ns) ==
    IF start_ns >= end_ns THEN [ok |-> FALSE, error |-> "InvalidTimeRange"]
    ELSE IF Cardinality(DOMAIN rs) = 0 THEN [ok |-> FALSE, error |-> "InvalidTier"]
    ELSE query(rs, column, select_tier(rs, start_ns, end_ns, 0, 0), start_ns, end_ns)

\* the non-zero timestamps a ring holds
stored_timestamps(ring) ==
    { ring.slab.ts[s] : s \in 0..(ring.slab.slot_count - 1) } \ {0}

holds_data(ring) == stored_timestamps(ring) # {}

oldest_stored(ring) == CHOOSE t \in stored_timestamps(ring) : \A u \in stored_timestamps(ring) : t <= u

newest_stored(ring) == CHOOSE t \in stored_timestamps(ring) : \A u \in stored_timestamps(ring) : t >= u

\* the stored range of a ring contains the requested range
covers(ring, start_ns, end_ns) ==
    holds_data(ring) /\ start_ns >= oldest_stored(ring) /\ end_ns <= newest_stored(ring)

\* the tier the selection rule names: the first that covers the range, else the last
\* that holds data, else tier 0
tier_by_rule(rs, start_ns, end_ns) ==
    LET tiers    == DOMAIN rs
        covering == { t \in tiers : covers(rs[t], start_ns, end_ns) }
        with     == { t \in tiers : holds_data(rs[t]) }
    IN  IF covering # {} THEN CHOOSE t \in covering : \A u \in covering : t <= u
        ELSE IF with # {} THEN CHOOSE t \in with : \A u \in with : t >= u
        ELSE 0

QueryTimes == 0..(MaxStoreTs + 1)

\* C22: query_auto uses the first tier whose stored range covers the requested range,
\* else the last tier that holds data, else tier 0 with the result flagged incomplete
C22_AutoTier ==
    \A start_ns \in QueryTimes : \A end_ns \in QueryTimes :
        start_ns < end_ns =>
            LET r == query_auto(rings, 0, start_ns, end_ns)
            IN  /\ r.ok
                /\ r.tier_used = tier_by_rule(rings, start_ns, end_ns)
                /\ (\A t \in DOMAIN rings : ~holds_data(rings[t])) => r.may_be_incomplete

\* C23: may_be_incomplete is true exactly when the tier holds no data or the start is
\* earlier than the oldest stored timestamp, whatever the end; available_range is the
\* oldest and the newest stored timestamp
C23_Coverage ==
    \A tier \in DOMAIN rings : \A start_ns \in QueryTimes : \A end_ns \in QueryTimes :
        start_ns < end_ns =>
            LET r    == query(rings, 0, tier, start_ns, end_ns)
                ring == rings[tier]
            IN  /\ r.ok
                /\ r.may_be_incomplete <=>
                       (~holds_data(ring) \/ start_ns < oldest_stored(ring))
                /\ r.available_range =
                       IF holds_data(ring)
                       THEN <<Some(oldest_stored(ring)), Some(newest_stored(ring))>>
                       ELSE <<None, None>>

----------------------------------------------------------------------------
(* Opening a store: Store::open validates the supplied schemas and, for an  *)
(* existing directory, compares them with meta.json before it maps a slab.  *)

\* the checks of open_existing on meta.json: "ok" or the first error
check_metadata(meta, schemas) ==
    LET bad == { i \in 1..Len(schemas) :
                    \/ stable_hash(schemas[i]) # meta.schemas[i].hash
                    \/ Len(schemas[i].tiers) # Len(meta.schemas[i].config.tiers) }
    IN  IF meta.version # METADATA_VERSION THEN "CorruptedMetadata"
        ELSE IF Len(schemas) # Len(meta.schemas) THEN "CorruptedMetadata"
        ELSE IF bad = {} THEN "ok"
        ELSE LET i == CHOOSE i \in bad : \A j \in bad : i <= j
             IN  IF stable_hash(schemas[i]) # meta.schemas[i].hash THEN "SchemaMismatch"
                 ELSE "CorruptedMetadata"

\* Store::open(path, schemas) on an existing directory
Store_open(meta, rs, index, schemas) ==
    IF \E i \in 1..Len(schemas) : SchemaConfig_validate(schemas[i]) # "ok"
    THEN [ok |-> FALSE, error |-> "Schema"]
    ELSE IF check_metadata(meta, schemas) # "ok"
    THEN [ok |-> FALSE, error |-> check_metadata(meta, schemas)]
    ELSE IF load_registry(index, schemas) = None
    THEN [ok |-> FALSE, error |-> "SeriesIndex"]
    ELSE [ok |-> TRUE, error |-> "none", schemas |-> schemas,
          rings |-> open_existing(rs), registry |-> load_registry(index, schemas)[1]]

MaxOpenTs == 2
MaxOpenRecords == 1

OpenTier0 == [interval |-> 1, retention |-> 2, fn |-> "None"]
OpenTier1 == [interval |-> 2, retention |-> 4, fn |-> "Average"]

\* the schemas the stores of this section are created with
StoredA == [name |-> 1, label_matcher |-> {}, tiers |-> <<OpenTier0, OpenTier1>>, max_series |-> 1]
StoredB == [name |-> 2, label_matcher |-> {<<1, 1>>}, tiers |-> <<OpenTier0>>, max_series |-> 1]

OpenSchemaSets == { <<StoredA>>, <<StoredA, StoredB>> }

\* tier lists a caller may supply in place of `tiers`: one interval, retention or
\* reducer changed, a tier dropped or added
tier_variants(tiers) ==
    { [tiers EXCEPT ![t] = [@ EXCEPT !.interval = @ + 1]] : t \in 1..Len(tiers) }
    \cup { [tiers EXCEPT ![t] = [@ EXCEPT !.retention = @ + 2]] : t \in 1..Len(tiers) }
    \cup { [tiers EXCEPT ![t] = [@ EXCEPT !.fn = IF @ = "Max" THEN "Min" ELSE "Max"]] : t \in 1..Len(tiers) }
    \cup { [tiers EXCEPT ![t] = [@ EXCEPT !.fn = "None"]] : t \in 1..Len(tiers) }
    \cup { SubSeq(tiers, 1, Len(tiers) - 1),
           Append(tiers, [interval |-> 4, retention |-> 8, fn |-> "Sum"]) }

\* the configs that differ from `config` in the name at most
renamed(config) == { [config EXCEPT !.name = n] : n \in {1, 2, 3} }

\* the configs that differ from `config` in at most one field
variants(config) ==
    renamed(config)
    \cup { [config EXCEPT !.max_series = m] : m \in {0, 2} }
    \cup { [config EXCEPT !.label_matcher = m] : m \in { {}, {<<1, 2>>}, {<<1, 1>>, <<2, 1>>} } }
    \cup { [config EXCEPT !.tiers = t] : t \in tier_variants(config.tiers) }

\* the schema lists a caller supplies to Store::open
SuppliedSchemas ==
    { <<>> }
    \cup { <<a>> : a \in variants(StoredA) \cup variants(StoredB) }
    \cup { <<a, b>> : a \in renamed(StoredA), b \in variants(StoredB) }
    \cup { <<a, b>> : a \in variants(StoredA), b \in renamed(StoredB) }

InitOpen ==
    /\ \E schemas \in OpenSchemaSets :
          /\ schema = schemas[1]
          /\ InitSeries(schemas)
    /\ rings = create_new(schema)
    /\ cursors = <<>>
    /\ ret = [op |-> "open", res |-> Ok(0), ops |-> <<>>, schemas |-> <<>>, error |-> "none"]
    /\ history = <<>>
    /\ InitExport

\* Store::open(path, schemas) on the directory of the store
Open(schemas) ==
    LET o == Store_open(metadata, rings, index_file, schemas)
    IN  /\ ret' = [op |-> "open", res |-> IF o.ok THEN Ok(0) ELSE Err, ops |-> <<>>,
                   schemas |-> schemas, error |-> o.error]
        /\ IF o.ok
           THEN /\ schema' = o.schemas[1]
                /\ rings' = o.rings
                /\ registry' = o.registry
           ELSE UNCHANGED <<schema, rings, registry>>
        /\ UNCHANGED <<metadata, cursors, history, index_file, directories, issued, export_vars>>

NextOpen ==
    \/ /\ Len(history) < MaxOpenRecords
       /\ \E ts \in 1..MaxOpenTs : Record(0, F(1), ts)
    \/ \E schemas \in SuppliedSchemas : Open(schemas)

SpecOpen == InitOpen /\ [][NextOpen]_vars

\* the configs stored in meta.json
stored_configs == [i \in 1..Len(metadata.schemas) |-> metadata.schemas[i].config]

\* two configs that differ in nothing but the name
same_but_name(a, b) ==
    /\ a.max_series = b.max_series
    /\ a.label_matcher = b.label_matcher
    /\ a.tiers = b.tiers

\* the files of the store directory are as before the step
DirectoryUnchanged ==
    /\ metadata' = metadata
    /\ \A t \in DOMAIN rings : rings'[t].slab = rings[t].slab
    /\ index_file' = index_file
    /\ directories' = directories
    /\ cursors' = cursors
    /\ export_file' = export_file

\* C24: opening an existing store succeeds when the supplied schemas differ from the
\* stored ones in name only; it fails, and leaves the directory as it was, when the
\* count differs or a schema differs from its stored counterpart in max_series, the
\* label matcher or a tier
C24_OpenChecksSchemas ==
    [][ret'.op = "open" /\ "schemas" \in DOMAIN ret' =>
          LET supplied == ret'.schemas
              same     == /\ Len(supplied) = Len(stored_configs)
                          /\ \A i \in 1..Len(supplied) : same_but_name(supplied[i], stored_configs[i])
          IN  /\ same => ret'.res.ok
              /\ ~same => ~ret'.res.ok /\ DirectoryUnchanged
      ]_vars

\* a store opened with a schema whose name is not the stored one
C24_Witness ==
    /\ ret.op = "open"
    /\ ret.res.ok
    /\ ret.schemas # <<>>
    /\ \E i \in 1..Len(ret.schemas) : ret.schemas[i].name # stored_configs[i].name
    /\ history # <<>>

\* the tiers and the configs validation is asked about
ValidateTiers ==
    [interval : {0, 1, 2},
     retention : {0, 1, 2, 4, MAX_SLOTS_PER_TIER, MAX_SLOTS_PER_TIER + 1},
     fn : {"None", "Average"}]

ValidateConfigs ==
    [name : {1}, label_matcher : {{}}, max_series : {0, 1},
     tiers : { <<>> } \cup { <<a>> : a \in ValidateTiers }
                      \cup { <<a, b>> : a \in ValidateTiers, b \in ValidateTiers }]

\* the conditions a valid schema meets
valid_by_rule(config) ==
    LET tiers == config.tiers
    IN  /\ Len(tiers) >= 1
        /\ config.max_series > 0
        /\ \A t \in 1..(Len(tiers) - 1) : tiers[t].interval < tiers[t + 1].interval
        /\ tiers[1].fn = "None"
        /\ \A t \in 2..Len(tiers) : tiers[t].fn # "None"
        /\ \A t \in 1..Len(tiers) :
              /\ tiers[t].interval > 0
              /\ tiers[t].retention >= tiers[t].interval
              /\ tiers[t].retention \div tiers[t].interval <= MAX_SLOTS_PER_TIER

\* C25: a schema passes validation if and only if it has a tier, max_series > 0,
\* strictly increasing intervals, no reducer on tier 0, a reducer on every later tier,
\* and in every tier interval > 0, retention >= interval and a slot count within the cap
C25_Validation ==
    \A config \in ValidateConfigs \cup { stored_configs[i] : i \in 1..Len(stored_configs) } :
        (SchemaConfig_validate(config) = "ok") <=> valid_by_rule(config)

----------------------------------------------------------------------------
(* Slab layout and handles.  A SeriesHandle is a plain value with a public  *)
(* constructor, so a caller can pass any schema index and column.  A store  *)
(* past the end of the mapped file is undefined behaviour: the call either  *)
(* ends the process or returns as if the store had been done.               *)

HEADER_SIZE == 64
SERIES_DIR_ENTRY_SIZE == 4
TIMESTAMP_SIZE == 8
VALUE_SIZE == 8

\* SlabLayout::new
SlabLayout_new(slots, max_series) ==
    LET series_dir_size          == max_series * SERIES_DIR_ENTRY_SIZE
        series_dir_offset        == HEADER_SIZE
        data_region_offset       == series_dir_offset + series_dir_size
        timestamp_column_size    == slots * TIMESTAMP_SIZE
        value_column_size        == slots * VALUE_SIZE
        total_value_columns_size == max_series * value_column_size
        timestamp_column_offset  == data_region_offset
        value_columns_offset     == timestamp_column_offset + timestamp_column_size
    IN  [file_size               |-> value_columns_offset + total_value_columns_size,
         series_dir_offset       |-> series_dir_offset,
         timestamp_column_offset |-> timestamp_column_offset,
         value_columns_offset    |-> value_columns_offset,
         value_column_size       |-> value_column_size]

\* SlabLayout::value_column_offset
value_column_offset(layout, series_column) ==
    layout.value_columns_offset + series_column * layout.value_column_size

\* the byte offset Slab::write_value and Slab::read_value use
value_offset(slab, slot_index, series_column) ==
    value_column_offset(SlabLayout_new(slab.slot_count, slab.max_series), series_column)
        + slot_index * VALUE_SIZE

\* the offset lies in the mapped file
in_file(slab, offset) ==
    offset + VALUE_SIZE <= SlabLayout_new(slab.slot_count, slab.max_series).file_size

\* Store::record(handle, value, timestamp_ns) on a store of schema_count schemas, rs the
\* rings of schema 0: the possible outcomes, each the rings afterwards, how the call
\* ended and the offset of the value store
Store_record(rs, schema_count, h, value, timestamp_ns) ==
    IF h.schema_index >= schema_count
    THEN { [rings |-> rs, outcome |-> "panic", offset |-> 0] }
    ELSE IF write_rejects(value, timestamp_ns)
    THEN { [rings |-> rs, outcome |-> "error", offset |-> 0] }
    ELSE LET ring       == rs[0]
             slot_index == compute_slot(ring, timestamp_ns)
             offset     == value_offset(ring.slab, slot_index, h.column)
             stamped    == [ring.slab EXCEPT !.ts[slot_index] = timestamp_ns]
         IN  IF in_file(ring.slab, offset)
             THEN { [rings |-> [rs EXCEPT ![0] = write(ring, h.column, value, timestamp_ns).ring],
                     outcome |-> "ok", offset |-> offset] }
             ELSE { \* the process ends at the store; the timestamp is in the file
                    [rings |-> [rs EXCEPT ![0] = RingBuffer_new(stamped)],
                     outcome |-> "crash", offset |-> offset],
                    \* the store hits memory behind the mapping and the call returns Ok
                    [rings |-> [rs EXCEPT ![0] =
                                   write_ok([ring EXCEPT !.slab = stamped], <<>>, timestamp_ns)],
                     outcome |-> "ok", offset |-> offset] }

\* Store::query(handle, tier, start_ns, end_ns) with any handle: how the call ends
Store_query(rs, schema_count, h, tier, start_ns, end_ns) ==
    IF h.schema_index >= schema_count THEN {"panic"}
    ELSE IF ~query(rs, 0, tier, start_ns, end_ns).ok THEN {"error"}
    ELSE IF h.column >= rs[tier].slab.max_series /\ iter_start(rs[tier])[2] > 0
    THEN {"crash", "ok"}
    ELSE {"ok"}

MaxHandleTs == 3
MaxHandleRecords == 2
MaxLayoutSlots == 4
MaxLayoutSeries == 4

\* stores of one schema with one tier of 3 slots
HandleSchemas ==
    { [tiers |-> << [interval |-> 1, retention |-> 3, fn |-> "None"] >>, max_series |-> m] :
        m \in {1, 2} }

\* the handles a caller can build: the issued ones and others
Handles == { SeriesHandle_new(i, c, c) : i \in {0, 1}, c \in {0, 1, 2} }

\* a handle the store issued
is_issued(h) == h.schema_index = 0 /\ h.column < schema.max_series

HandleValues == {F(1), Infinity}

InitHandles ==
    /\ schema \in HandleSchemas
    /\ rings = create_new(schema)
    /\ cursors = <<>>
    /\ ret = [op |-> "open", res |-> Ok(0), ops |-> <<>>, outcome |-> "ok", offset |-> 0]
    /\ history = <<>>
    /\ InitSeries(<<schema>>)
    /\ InitExport

\* Store::record with any handle
RecordWith(h, value, timestamp_ns) ==
    \E o \in Store_record(rings, 1, h, value, timestamp_ns) :
        /\ rings' = o.rings
        /\ history' = IF o.rings # rings
                      THEN Append(history, <<h.column, timestamp_ns, value>>)
                      ELSE history
        /\ ret' = [op |-> "record", res |-> IF o.outcome = "ok" THEN Ok(0) ELSE Err, ops |-> <<>>,
                   outcome |-> o.outcome, offset |-> o.offset]
        /\ UNCHANGED <<schema, metadata, cursors, series_vars, export_vars>>

\* Store::query with any handle
QueryWith(h, start_ns, end_ns) ==
    \E outcome \in Store_query(rings, 1, h, 0, start_ns, end_ns) :
        /\ ret' = [op |-> "query", res |-> IF outcome = "ok" THEN Ok(0) ELSE Err, ops |-> <<>>,
                   outcome |-> outcome, offset |-> 0]
        /\ UNCHANGED <<schema, metadata, rings, cursors, history, series_vars, export_vars>>

NextHandles ==
    \/ /\ Len(history) < MaxHandleRecords
       /\ \E h \in Handles, value \in HandleValues, ts \in 0..MaxHandleTs : RecordWith(h, value, ts)
    \/ \E h \in Handles, start_ns \in 0..1, end_ns \in {1, MaxHandleTs + 1} : QueryWith(h, start_ns, end_ns)

SpecHandles == InitHandles /\ [][NextHandles]_vars

\* C26: record and query with a handle the store did not issue return an error and
\* leave every ring as it was: no panic, no store outside the value region
C26_ForeignHandle ==
    \A h \in Handles :
        ~is_issued(h) =>
            /\ \A value \in HandleValues : \A ts \in 0..MaxHandleTs :
                  \A o \in Store_record(rings, 1, h, value, ts) :
                      o.outcome = "error" /\ o.rings = rings
            /\ \A start_ns \in 0..1 : \A end_ns \in {1, MaxHandleTs + 1} :
                  Store_query(rings, 1, h, 0, start_ns, end_ns) = {"error"}

\* C27: the series directory, the timestamp column and every value column of a slab
\* begin at a multiple of 8
C27_Aligned ==
    \A slots \in 1..MaxLayoutSlots : \A max_series \in (1..MaxLayoutSeries) \cup {schema.max_series} :
        LET layout == SlabLayout_new(slots, max_series)
        IN  /\ layout.series_dir_offset % 8 = 0
            /\ layout.timestamp_column_offset % 8 = 0
            /\ \A c \in 0..(max_series - 1) : value_column_offset(layout, c) % 8 = 0

----------------------------------------------------------------------------
(* Slots: a store of two tiers under record, record_batch, consolidate and  *)
(* reopen.                                                                  *)

MaxSlotTs == 4
MaxSlotRecords == 2
MaxSlotBatch == 2

SlotSchema ==
    [ tiers |-> << [interval |-> 1, retention |-> 3, fn |-> "None"],
                   [interval |-> 2, retention |-> 4, fn |-> "Average"] >>,
      max_series |-> 2 ]

SlotValues == {NaN, F(1)}

\* the batches the store is written with: up to MaxSlotBatch <<column, value>> entries
\* that name no column twice, columns rising
SlotBatches ==
    { b \in UNION { [1..n -> (0..(SlotSchema.max_series - 1)) \X SlotValues] : n \in 0..MaxSlotBatch } :
        \A i \in 1..(Len(b) - 1) : b[i][1] < b[i + 1][1] }

InitSlots ==
    /\ schema = SlotSchema
    /\ rings = create_new(schema)
    /\ cursors = <<>>
    /\ ret = [op |-> "open", res |-> Ok(0), ops |-> <<>>]
    /\ history = <<>>
    /\ InitSeries(<<schema>>)
    /\ InitExport

NextSlots ==
    \/ /\ Len(history) < MaxSlotRecords
       /\ \E h \in handles(registry), value \in SlotValues, timestamp_ns \in 0..MaxSlotTs :
             Record(h.column, value, timestamp_ns)
    \/ /\ Len(history) < MaxSlotRecords
       /\ \E entries \in SlotBatches, timestamp_ns \in 0..MaxSlotTs :
             RecordBatch(entries, timestamp_ns)
    \/ Consolidate
    \/ Reopen

SpecSlots == InitSlots /\ [][NextSlots]_vars

\* C28: a slot with timestamp 0 holds NaN in every column, and no read, from start 0
\* or later, yields a point with timestamp 0 or with a NaN value
C28_EmptySlotsAreNaN ==
    \A t \in DOMAIN rings :
        /\ \A s \in 0..(rings[t].slab.slot_count - 1) :
              rings[t].slab.ts[s] = 0 =>
                  \A c \in 0..(rings[t].slab.max_series - 1) : is_nan(rings[t].slab.val[s][c])
        /\ \A c \in 0..(rings[t].slab.max_series - 1) :
              \A start_ns \in 0..MaxSlotTs : \A end_ns \in (start_ns + 1)..(MaxSlotTs + 1) :
                  LET points == read(rings[t], c, start_ns, end_ns)
                  IN  \A k \in 1..Len(points) : points[k][1] # 0 /\ ~is_nan(points[k][2])

\* a store with written and unwritten slots in both tiers, read from start 0
C28_Witness ==
    /\ \A t \in DOMAIN rings :
          /\ \E s \in 0..(rings[t].slab.slot_count - 1) : rings[t].slab.ts[s] = 0
          /\ \E s \in 0..(rings[t].slab.slot_count - 1) : rings[t].slab.ts[s] # 0
    /\ read(rings[0], 0, 0, MaxSlotTs + 1) # <<>>
    /\ \E s \in 0..(rings[0].slab.slot_count - 1) :
          rings[0].slab.ts[s] # 0 /\ is_nan(rings[0].slab.val[s][0])
    /\ ret.op = "open"

\* C29: a slot with a non-zero timestamp ts is the slot (ts / interval_ns) mod slot_count,
\* and the write cursor is smaller than slot_count
C29_SlotOfTimestamp ==
    \A t \in DOMAIN rings :
        LET slab == rings[t].slab
        IN  /\ slab.write_cursor < slab.slot_count
            /\ \A s \in 0..(slab.slot_count - 1) :
                  slab.ts[s] # 0 => s = (slab.ts[s] \div slab.interval_ns) % slab.slot_count

\* both tiers hold a timestamp that has gone around the ring
C29_Witness ==
    \A t \in DOMAIN rings :
        \E s \in 0..(rings[t].slab.slot_count - 1) :
            rings[t].slab.ts[s] \div rings[t].slab.interval_ns >= rings[t].slab.slot_count

----------------------------------------------------------------------------
(* record_batch and record *)

\* Store::record for each entry in order; the calls all succeed for such entries
RECURSIVE record_each(_, _, _)
record_each(rs, entries, timestamp_ns) ==
    IF entries = <<>> THEN rs
    ELSE record_each([rs EXCEPT ![0] = write(rs[0], entries[1][1], entries[1][2], timestamp_ns).ring],
                     Tail(entries), timestamp_ns)

MaxBatchTs == 3
MaxBatchCalls == 2
MaxBatchLen == 2

BatchValues == {NaN, F(1)}

\* the batches of up to MaxBatchLen entries without an infinite value
FiniteBatches ==
    UNION { [1..n -> (0..(RingSchema.max_series - 1)) \X BatchValues] : n \in 0..MaxBatchLen }

NextBatch ==
    \/ /\ Len(history) < MaxBatchCalls
       /\ \E h \in handles(registry), value \in BatchValues, timestamp_ns \in 1..MaxBatchTs :
             Record(h.column, value, timestamp_ns)
    \/ /\ Len(history) < MaxBatchCalls
       /\ \E entries \in FiniteBatches, timestamp_ns \in 1..MaxBatchTs :
             RecordBatch(entries, timestamp_ns)

SpecBatch == InitRing /\ [][NextBatch]_vars

\* the entries of the call just made, as <<column, value>> pairs, from the history
entries_of_step ==
    [i \in 1..(Len(history') - Len(history)) |->
        <<history'[Len(history) + i][1], history'[Len(history) + i][3]>>]

\* C30: for entries without an infinite value and a non-zero timestamp, record_batch
\* leaves every ring (timestamps, values, write cursor, wrapped flag) as one record call
\* per entry, in order, leaves it
C30_BatchAsRecords ==
    [][(ret'.op = "record_batch" /\ ret'.res.ok) =>
          rings' = IF history' = history THEN rings
                   ELSE record_each(rings, entries_of_step, history'[Len(history')][2])
      ]_vars

\* a batch of two entries for different columns was written to a ring that holds data
\* in another slot
C30_Witness ==
    /\ ret.op = "record_batch"
    /\ ret.res.ok
    /\ Len(history) >= 3
    /\ history[Len(history)][2] = history[Len(history) - 1][2]
    /\ history[Len(history)][1] # history[Len(history) - 1][1]
    /\ \E s \in 0..(rings[0].slab.slot_count - 1) : s # rings[0].slab.write_cursor /\ rings[0].slab.ts[s] # 0

----------------------------------------------------------------------------
(* Consolidation passes: what a pass writes and what it returns *)

\* the <<slot, column>> cells of a ring whose value differs between two states
changed_values(before, after) ==
    { cell \in (0..(after.slab.slot_count - 1)) \X (0..(after.slab.max_series - 1)) :
        after.slab.val[cell[1]][cell[2]] # before.slab.val[cell[1]][cell[2]] }

\* series `column` has a recorded non-NaN sample in window w of tier t
sampled_in(column, t, w) ==
    \E i \in 1..Len(history) :
        /\ history[i][1] = column
        /\ ~is_nan(history[i][3])
        /\ window_start(history[i][2], Tier(t).interval) = w

\* C31: a consolidate pass that returns a count leaves a new value for a series in a
\* destination window only if the series has a recorded non-NaN sample in that window,
\* the new value is not NaN, each tier pair's count covers the values it changed, and
\* the count returned is 0 exactly when no destination ring differs
C31_WritesSampledWindows ==
    [][ (ret'.op = "consolidate" /\ ret'.res.ok)
          => /\ \A t \in 1..(NumTiers - 1) :
                   /\ Cardinality(changed_values(rings[t], rings'[t])) <= ret'.ops[t]
                   /\ \A cell \in changed_values(rings[t], rings'[t]) :
                         /\ ~is_nan(rings'[t].slab.val[cell[1]][cell[2]])
                         /\ sampled_in(cell[2], t, rings'[t].slab.ts[cell[1]])
             /\ (ret'.res.n = 0) <=> (\A t \in 1..(NumTiers - 1) : rings'[t] = rings[t]) ]_vars

----------------------------------------------------------------------------
(* Passes: records with strictly increasing timestamps into a two-tier store *)
(* whose source ring is short, with consolidate called at any point          *)

MaxPassTs == 7
MaxPassRecords == 4

\* two series; the source tier has 2 slots of 2 ns, the destination windows are 4 ns long
PassSchema ==
    [ tiers |-> << [interval |-> 2, retention |-> 4, fn |-> "None"],
                   [interval |-> 4, retention |-> 16, fn |-> "Average"] >>,
      max_series |-> 2 ]

InitPasses ==
    /\ schema = PassSchema
    /\ rings = create_new(PassSchema)
    /\ cursors = <<>>
    /\ ret = [op |-> "open", res |-> Ok(0), ops |-> <<>>]
    /\ history = <<>>
    /\ InitSeries(<<schema>>)
    /\ InitExport

\* the next record, later than every record so far
RecordIncreasing ==
    /\ Len(history) < MaxPassRecords
    /\ \E column \in 0..(schema.max_series - 1), value \in StoreValues, ts \in 1..MaxPassTs :
          /\ history # <<>> => ts > history[Len(history)][2]
          /\ Record(column, value, ts)

NextPasses == RecordIncreasing \/ Consolidate

SpecPasses == InitPasses /\ [][NextPasses]_vars

\* the recorded sample with timestamp ts is still in the ring of tier 0
still_stored(ts) == rings[0].slab.ts[compute_slot(rings[0], ts)] = ts

\* the non-NaN values recorded for a column that are still stored in tier 0 and fall in
\* window w of tier 1, in time order
RECURSIVE present_in(_, _, _)
present_in(h, column, w) ==
    IF h = <<>> THEN <<>>
    ELSE LET rest == present_in(Tail(h), column, w)
         IN  IF /\ h[1][1] = column
                /\ ~is_nan(h[1][3])
                /\ still_stored(h[1][2])
                /\ window_start(h[1][2], Tier(1).interval) = w
             THEN <<h[1][3]>> \o rest
             ELSE rest

\* the window starts of tier 1 in the range of the model's timestamps
PassWindows == { w \in 0..MaxPassTs : w % Tier(1).interval = 0 }

\* the cursor of the pair (0, 1) is set, more samples than the source ring has slots were
\* recorded after it, and the sample it refers to has been overwritten
cursor_overrun ==
    LET last_processed == LastProcessed(cursors, 0)
    IN  /\ last_processed > 0
        /\ Cardinality({ i \in 1..Len(history) : history[i][2] > last_processed })
             > rings[0].slab.slot_count
        /\ ~still_stored(last_processed)

\* C32: a consolidate call on a store whose cursor was overrun returns without error,
\* leaves in tier 1, for every series and window, the reducer of the series' samples of
\* that window that tier 0 still stores (and writes nothing for a series without such
\* samples), and sets the cursor to the newest timestamp of tier 0
C32_ResumeAfterOverrun ==
    [][ (ret'.op = "consolidate" /\ cursor_overrun)
          => /\ ret'.res.ok
             /\ newest_timestamp(rings[0]) = Some(LastProcessed(cursors', 0))
             /\ \A column \in 0..(schema.max_series - 1), w \in PassWindows :
                   LET values == present_in(history, column, w)
                       slot   == compute_slot(rings[1], w)
                   IN  IF values # <<>>
                       THEN read(rings'[1], column, w, w + Tier(1).interval)
                              = << <<w, apply(Tier(1).fn, values)>> >>
                       ELSE rings'[1].slab.val[slot][column] = rings[1].slab.val[slot][column]
      ]_vars

----------------------------------------------------------------------------
(* The cursor file *)

\* C33: a consolidate call that returns 0 leaves the cursor file as it was (absent when
\* it was absent, with the same entries otherwise), and whenever the file exists some
\* cursor in it has been advanced beyond 0
C33_CursorFileLazy ==
    [][ /\ (ret'.op = "consolidate" /\ ret'.res = Ok(0)) => cursors' = cursors
        /\ cursors' # <<>> => \E i \in DOMAIN cursors'[1] : cursors'[1][i] > 0 ]_vars

----------------------------------------------------------------------------
(* A write that is cut short: the process stops inside RingBuffer::write and *)
(* the ring is opened again                                                  *)

MaxCrashTs == 5
MaxCrashRecords == 3

\* one tier of 3 slots and a single series
CrashSchema ==
    [ tiers |-> << [interval |-> 1, retention |-> 3, fn |-> "None"] >>,
      max_series |-> 1 ]

InitCrash ==
    /\ schema = CrashSchema
    /\ rings = create_new(CrashSchema)
    /\ cursors = <<>>
    /\ ret = [op |-> "open", res |-> Ok(0), ops |-> <<>>]
    /\ history = <<>>
    /\ InitSeries(<<schema>>)
    /\ InitExport

\* the slab when RingBuffer::write stops after `steps` of its stores: 1 is the
\* timestamp store, 2 the timestamp and the value store; the cursor update is not reached
write_stopped(ring, series_column, value, timestamp_ns, steps) ==
    LET slot_index == compute_slot(ring, timestamp_ns)
    IN  [ ring.slab EXCEPT
            !.ts[slot_index] = timestamp_ns,
            !.val[slot_index][series_column] = IF steps >= 2 THEN value ELSE @ ]

\* a write that passes validation and stops after `steps` stores; the store is then
\* opened again on the files as they are
StoppedWrite(column, value, timestamp_ns, steps) ==
    /\ ~write_rejects(value, timestamp_ns)
    /\ rings' = [rings EXCEPT
                   ![0] = RingBuffer_new(write_stopped(rings[0], column, value, timestamp_ns, steps))]
    /\ registry' = load_registry(index_file, registry.schemas)[1]
    /\ ret' = [op |-> "stopped_write", res |-> Ok(0), ops |-> <<>>, steps |-> steps]
    /\ UNCHANGED <<schema, metadata, cursors, history, index_file, directories, issued, export_vars>>

\* the model follows the store up to the reopen after the stopped write
NextCrash ==
    \/ /\ ret.op # "stopped_write"
       /\ Len(history) < MaxCrashRecords
       /\ \E column \in 0..(schema.max_series - 1), value \in StoreValues, ts \in 1..MaxCrashTs :
             Record(column, value, ts)
    \/ /\ ret.op # "stopped_write"
       /\ \E column \in 0..(schema.max_series - 1), value \in StoreValues, ts \in 1..MaxCrashTs,
             steps \in 1..2 : StoppedWrite(column, value, ts, steps)

SpecCrash == InitCrash /\ [][NextCrash]_vars

\* C34: after a write that stopped between two of its steps and a reopen, a full-range
\* read of a series returns only points that a completed write recorded for the series
C34_StoppedWriteReadsAsEmpty ==
    [][ ret'.op = "stopped_write"
          => \A column \in 0..(schema.max_series - 1) :
                LET points == read(rings'[0], column, 0, FullRangeEnd)
                IN  \A i \in 1..Len(points) : points[i] \in RecordedFor(column) ]_vars

----------------------------------------------------------------------------
(* One pass at the end compared with passes in between *)

\* the points a full-range read of a ring returns for a column, as a set
points_of(ring, column) ==
    LET points == read(ring, column, 0, FullRangeEnd)
    IN  { points[i] : i \in 1..Len(points) }

\* the outcomes of the run in which the same records are made and consolidate is called
\* once, after all of them: tier 0 is as it is now (no pass writes to it), tier 1 is as
\* created and there is no cursor file
once_after_all == consolidate(schema, [rings EXCEPT ![1] = create_new(schema)[1]], <<>>)

\* the records so far span less than the retention of tier 0
within_retention ==
    history # <<>> => history[Len(history)][2] - history[1][2] < Tier(0).retention

\* C35: when the last call was a consolidate that returned without error and the records
\* stayed within the retention, tier 1 holds for every series the points it holds when
\* consolidate is called only once, after all the records
C35_PassesCompose ==
    (ret.op = "consolidate" /\ ret.res.ok /\ within_retention)
        => \A o \in once_after_all :
              o.res.ok => \A column \in 0..(schema.max_series - 1) :
                             points_of(rings[1], column) = points_of(o.rings[1], column)

----------------------------------------------------------------------------
(* Which samples a pass reads *)

\* the timestamps of the non-NaN samples that tier 0 still stores and that are newer
\* than the cursor of the pair (0, 1)
unprocessed ==
    { history[i][2] : i \in { j \in 1..Len(history) :
                                /\ ~is_nan(history[j][3])
                                /\ still_stored(history[j][2])
                                /\ history[j][2] > LastProcessed(cursors, 0) } }

\* C36: a consolidate call that returns without error reads from tier 0 every stored
\* non-NaN sample that is newer than the cursor (none is skipped), and reads no sample
\* at or before the cursor (none is read by two passes)
C36_EachSampleOnce ==
    \A o \in consolidate(schema, rings, cursors) :
        o.res.ok => /\ unprocessed \subseteq o.steps[1].seen
                    /\ \A ts \in o.steps[1].seen : ts > LastProcessed(cursors, 0)

----------------------------------------------------------------------------
(* The order in which a pass writes its windows *)

\* C37: all outcomes of a consolidate call from one store state (one per order in which
\* the windows of a tier pair can be written) leave the same rings, and in each the
\* newest timestamp of a destination tier that was written to is the largest window
\* start of the pass
C37_WindowOrderIrrelevant ==
    \A o1 \in consolidate(schema, rings, cursors) :
        /\ \A o2 \in consolidate(schema, rings, cursors) : o1.rings = o2.rings
        /\ o1.res.ok =>
             \A i \in 1..Len(o1.steps) :
                o1.steps[i].wrote # {}
                    => newest_timestamp(o1.rings[i]) = Some(SetMax(o1.steps[i].wrote))

----------------------------------------------------------------------------
(* The write cursor *)

----------------------------------------------------------------------------
(* The export cursor over records and drains *)

\* C39: over every step (record, drain, cursor save) no entry of the export cursor is
\* removed or decreased, and every entry is the timestamp of a point that a drain so far
\* returned for the entry's tier and series
C39_ExportCursorMonotonic ==
    [][ /\ DOMAIN export \subseteq DOMAIN export'
        /\ \A key \in DOMAIN export' :
              /\ key \in DOMAIN export => export'[key] >= export[key]
              /\ \E i \in 1..Len(drained') : <<key[2], key[3], export'[key]>> \in drained'[i]
      ]_vars

\* a second drain has moved the entry of a series from a point of the first drain to a
\* newer point
C39_Witness ==
    /\ ret.op = "drain"
    /\ Len(drained) = 2
    /\ \E key \in DOMAIN export :
          /\ <<key[2], key[3], export[key]>> \in drained[2]
          /\ \E p \in drained[1] : p[1] = key[2] /\ p[2] = key[3] /\ p[3] < export[key]

----------------------------------------------------------------------------
(* Series ids and columns in a store of two schemas with room for two series *)
(* each, under registrations and reopens                                     *)

MaxIdNames == 3

\* schema 0 takes the series labelled 1 = 1, schema 1 takes every other series
IdSchemas ==
    << [label_matcher |-> {<<1, 1>>}, max_series |-> 2,
        tiers |-> << [interval |-> 1, retention |-> 2, fn |-> "None"] >>],
       [label_matcher |-> {}, max_series |-> 2,
        tiers |-> << [interval |-> 1, retention |-> 2, fn |-> "None"] >>] >>

IdNames == 1..MaxIdNames

IdLabelLists == { <<>>, <<<<1, 1>>>>, <<<<2, 1>>, <<1, 1>>>> }

InitIds ==
    /\ schema = IdSchemas[1]
    /\ metadata = StoreMetadata_new(IdSchemas)
    /\ registry = Store_create(IdSchemas).registry
    /\ index_file = Store_create(IdSchemas).index_file
    /\ directories = Store_create(IdSchemas).directories
    /\ rings = create_new(schema)
    /\ cursors = <<>>
    /\ ret = [op |-> "open", res |-> Ok(0), ops |-> <<>>]
    /\ history = <<>>
    /\ issued = << >>
    /\ InitExport

NextIds ==
    \/ \E name \in IdNames, labels \in IdLabelLists : Register(name, labels)
    \/ Reopen

SpecIds == InitIds /\ [][NextIds]_vars

\* the registered series of a schema
registered_in(reg, schema_index) == { info \in infos(reg) : info.schema_index = schema_index }

\* the series of every schema of a registry have pairwise distinct columns, each column
\* is the series id and below max_series, and the ids are 0 .. series_count - 1
ids_in_order(reg) ==
    \A s \in 0..(Len(reg.schemas) - 1) :
        /\ \A a \in registered_in(reg, s), b \in registered_in(reg, s) :
              a.column = b.column => a = b
        /\ \A a \in registered_in(reg, s) :
              a.column = a.series_id /\ a.column < reg.schemas[s + 1].max_series
        /\ { a.series_id : a \in registered_in(reg, s) } = 0..(series_count(reg, s) - 1)

\* C40: in every state of the registry, and of the registry loaded from the saved index
\* file, the series of each schema have pairwise distinct columns, each column equals the
\* series id and is smaller than max_series, and the ids in use are 0 .. count - 1
C40_RegistryIds ==
    /\ ids_in_order(registry)
    /\ load_registry(index_file, registry.schemas) # None
    /\ ids_in_order(load_registry(index_file, registry.schemas)[1])

\* the store was reopened with both schemas full, and the registry it loaded is the one
\* that was saved
C40_Witness ==
    /\ ret.op = "open"
    /\ \A s \in 0..(Len(registry.schemas) - 1) : Cardinality(registered_in(registry, s)) = 2
    /\ registry = load_registry(index_file, registry.schemas)[1]

====
